---- MODULE Spec2Model ----
(***************************************************************************)
(* A model of the goss FAISS binding: the batch operations of faissIndex  *)
(* (index.go) and the write-through PersistentIndex wrapper.              *)
(*                                                                         *)
(* The FAISS engine is reached through cgo calls; it is modelled by the   *)
(* Engine* operators as an exact (flat) index: a list of labels and the   *)
(* row-major storage of their vectors.  Every engine call may fail, and a *)
(* failed engine call leaves the engine index as it was.                  *)
(***************************************************************************)
EXTENDS Integers, Sequences, FiniteSets, TLC

(***************************************************************************)
(* Bounds of the model.                                                   *)
(***************************************************************************)
MaxD == 2          \* dimensions 1..MaxD
MaxRows == 3       \* rows of a vector or query buffer
MaxTotal == 2      \* rows of the index a caller starts from
MaxK == 2          \* k of a search is in 1..MaxK
MaxVal == 1        \* a float32 component is in 0..MaxVal
NProcs == 2        \* goroutines that call one PersistentIndex
MaxID == 1         \* the labels a caller of AddWithIDs passes are in 0..MaxID
MaxStored == 1     \* rows the engine takes into the index behind a PersistentIndex
MaxSelID == 10     \* the ends of a range selector are in -1..MaxSelID
IndexSize == 20    \* the largest index a selector is applied to holds IDs 0..IndexSize-1
MaxBatchID == 3    \* the IDs of an explicit set are in -1..MaxBatchID
MaxBatchLen == 4   \* an explicit set is built from at most MaxBatchLen IDs
BufferSize == 2    \* bytes of the transfer buffer of copyFile (64 KB in the code)

Vals == 0..MaxVal

(***************************************************************************)
(* Program constants.                                                     *)
(***************************************************************************)
MetricInnerProduct == 0
MetricL2 == 1
\* The default batch sizes are declared outside the files at hand; the
\* callers only rely on them being positive.
DefaultAddBatchSize == 1000
DefaultSearchBatchSize == 100

(***************************************************************************)
(* Errors.  A Go error is the list of its context strings, outermost      *)
(* first, ending with the root cause; the nil error is the empty list.    *)
(***************************************************************************)
Nil == <<>>
ErrInvalidDimension == <<"invalid dimension">>
ErrInvalidK == <<"invalid k value">>
ErrEmptyVectors == <<"empty vectors">>
ErrIndexNotTrained == <<"index not trained">>
ErrNullPointer == <<"null pointer">>

\* getLastError: the message of the engine is opaque
getLastError == <<"faiss error">>

wrapError(err, context) == IF err = Nil THEN Nil ELSE <<context>> \o err

ValidateVectors_AcceptsEmpty(vectors, d) ==
    IF d <= 0 THEN ErrInvalidDimension
    ELSE IF Len(vectors) % d # 0
         THEN << "vectors length " \o ToString(Len(vectors))
                 \o " is not divisible by dimension " \o ToString(d) >>
    ELSE Nil

ValidateVectors(vectors, d) ==
    IF Len(vectors) = 0 THEN ErrEmptyVectors
    ELSE IF d <= 0 THEN ErrInvalidDimension
    ELSE IF Len(vectors) % d # 0
         THEN << "vectors length " \o ToString(Len(vectors))
                 \o " is not divisible by dimension " \o ToString(d) >>
    ELSE Nil

ValidateK(kk) == IF kk <= 0 THEN ErrInvalidK ELSE Nil

(***************************************************************************)
(* Go slices.  s[lo:hi] of a slice whose indices start at 0.              *)
(***************************************************************************)
Slice(s, lo, hi) == SubSeq(s, lo + 1, hi)

(***************************************************************************)
(* The handle and the engine index behind it.                             *)
(***************************************************************************)
NilIndex == [nil |-> TRUE]
IsNil(ix) == "nil" \in DOMAIN ix

NewIndex(d, metric, trained) ==
    [d |-> d, metric |-> metric, trained |-> trained, ids |-> <<>>, xb |-> <<>>]

D(ix) == IF IsNil(ix) THEN 0 ELSE ix.d
IsTrained(ix) == IF IsNil(ix) THEN FALSE ELSE ix.trained
Ntotal(ix) == IF IsNil(ix) THEN 0 ELSE Len(ix.ids)
MetricType(ix) == IF IsNil(ix) THEN MetricL2 ELSE ix.metric

\* row r (from 0) of a row-major buffer of dimension d
Row(buf, d, r) == Slice(buf, r * d, (r + 1) * d)

\* faiss_Index_add(idx, n, x): n rows read from x, labelled ntotal, ntotal+1, ...
EngineAdd(ix, n, x) ==
    [ix EXCEPT !.ids = ix.ids \o [j \in 1..n |-> Len(ix.ids) + j - 1],
               !.xb = ix.xb \o SubSeq(x, 1, n * ix.d)]

\* faiss_Index_add_with_ids(idx, n, x, xids)
EngineAddWithIDs(ix, n, x, xids) ==
    [ix EXCEPT !.ids = ix.ids \o SubSeq(xids, 1, n),
               !.xb = ix.xb \o SubSeq(x, 1, n * ix.d)]

\* The outcome of faissIndex.Add: the index afterwards and the error.
\* engineOk is the outcome of the engine call when it is reached.
Add(ix, x, engineOk) ==
    IF IsNil(ix) THEN [idx |-> ix, err |-> ErrNullPointer, engine |-> FALSE]
    ELSE LET d == D(ix)
             verr == ValidateVectors(x, d)
         IN IF verr # Nil
            THEN [idx |-> ix, err |-> wrapError(verr, "add vectors validation"),
                  engine |-> FALSE]
            ELSE IF ~IsTrained(ix)
            THEN [idx |-> ix, err |-> wrapError(ErrIndexNotTrained, "add operation"),
                  engine |-> FALSE]
            ELSE LET n == Len(x) \div d
                 IN IF engineOk
                    THEN [idx |-> EngineAdd(ix, n, x), err |-> Nil, engine |-> TRUE]
                    ELSE [idx |-> ix, err |-> wrapError(getLastError, "add operation"),
                          engine |-> TRUE]

\* the distance the engine computes between query row q and the stored row
\* that starts after offset off of xb, over components c..d
RECURSIVE Distance(_, _, _, _)
Distance(ix, q, off, c) ==
    IF c > ix.d THEN 0
    ELSE (IF ix.metric = MetricL2
          THEN (q[c] - ix.xb[off + c]) * (q[c] - ix.xb[off + c])
          ELSE q[c] * ix.xb[off + c])
         + Distance(ix, q, off, c + 1)

\* the distance reported for a missing result, with label -1
NoDistance == -1

\* the k best stored rows for one query row q: <<distances, labels>>, best
\* first (nearest for L2, largest product otherwise), padded when the index
\* holds fewer than k rows
QueryResult(ix, q, kk) ==
    LET nt == Len(ix.ids)
        ds == [j \in 1..nt |-> Distance(ix, q, (j - 1) * ix.d, 1)] \o <<>>
        better(a, b) == IF ds[a] = ds[b] THEN a < b
                        ELSE IF ix.metric = MetricL2 THEN ds[a] < ds[b]
                        ELSE ds[a] > ds[b]
        ranked == [r \in 1..kk |->
                      IF r > nt THEN 0
                      ELSE CHOOSE a \in 1..nt :
                              Cardinality({b \in 1..nt : better(b, a)}) = r - 1] \o <<>>
    IN << [r \in 1..kk |-> IF ranked[r] = 0 THEN NoDistance ELSE ds[ranked[r]]] \o <<>>,
          [r \in 1..kk |-> IF ranked[r] = 0 THEN -1 ELSE ix.ids[ranked[r]]] \o <<>> >>

\* faiss_Index_search(idx, n, x, k, distances, labels): the k best rows of each
\* of the n queries, row-major; each query is answered on its own
EngineSearch(ix, n, x, kk) ==
    LET per == [qi \in 1..n |-> QueryResult(ix, Row(x, ix.d, qi - 1), kk)] \o <<>>
    IN [distances |-> [p \in 1..(n * kk) |-> per[((p - 1) \div kk) + 1][1][((p - 1) % kk) + 1]]
                         \o <<>>,
        labels |-> [p \in 1..(n * kk) |-> per[((p - 1) \div kk) + 1][2][((p - 1) % kk) + 1]]
                         \o <<>>]

\* The outcome of faissIndex.Search.
Search(ix, x, kk, engineOk) ==
    IF IsNil(ix) THEN [distances |-> <<>>, labels |-> <<>>, err |-> ErrNullPointer,
                       engine |-> FALSE]
    ELSE LET d == D(ix)
             verr == ValidateVectors(x, d)
             kerr == ValidateK(kk)
         IN IF verr # Nil
            THEN [distances |-> <<>>, labels |-> <<>>,
                  err |-> wrapError(verr, "search vectors validation"), engine |-> FALSE]
            ELSE IF kerr # Nil
            THEN [distances |-> <<>>, labels |-> <<>>,
                  err |-> wrapError(kerr, "search k validation"), engine |-> FALSE]
            ELSE IF ~IsTrained(ix)
            THEN [distances |-> <<>>, labels |-> <<>>,
                  err |-> wrapError(ErrIndexNotTrained, "search operation"),
                  engine |-> FALSE]
            ELSE LET n == Len(x) \div d
                 IN IF engineOk
                    THEN [distances |-> EngineSearch(ix, n, x, kk).distances,
                          labels |-> EngineSearch(ix, n, x, kk).labels,
                          err |-> Nil, engine |-> TRUE]
                    ELSE [distances |-> <<>>, labels |-> <<>>,
                          err |-> wrapError(getLastError, "search operation"),
                          engine |-> TRUE]

(***************************************************************************)
(* ID selectors (selector.go): nil, a range [min, max) or a list of IDs.  *)
(***************************************************************************)
NilSelector == [kind |-> "nil"]
RangeSelector(imin, imax) == [kind |-> "range", imin |-> imin, imax |-> imax]
BatchSelector(indices) == [kind |-> "batch", indices |-> indices]

SelectorIsNil(sel) == sel.kind = "nil"

\* the engine's is_member of a selector
Selects(sel, id) ==
    IF sel.kind = "range" THEN sel.imin <= id /\ id < sel.imax
    ELSE IF sel.kind = "batch" THEN \E j \in 1..Len(sel.indices) : sel.indices[j] = id
    ELSE FALSE

\* the positions (from 1) of the rows of ix that sel does not select
Kept(ix, sel) == {j \in 1..Len(ix.ids) : ~Selects(sel, ix.ids[j])}

RECURSIVE SeqOfSet(_)
\* the elements of a finite set of integers in ascending order
SeqOfSet(S) ==
    IF S = {} THEN <<>>
    ELSE LET m == CHOOSE a \in S : \A b \in S : a <= b
         IN <<m>> \o SeqOfSet(S \ {m})

RECURSIVE FlatRows(_, _)
\* the storage of the rows of ix at the positions js (ascending)
FlatRows(ix, js) ==
    IF js = <<>> THEN <<>>
    ELSE Row(ix.xb, ix.d, js[1] - 1) \o FlatRows(ix, Tail(js))

\* faiss_Index_remove_ids(idx, sel, &nRemoved): the selected rows leave the index
EngineRemoveIDs(ix, sel) ==
    LET js == SeqOfSet(Kept(ix, sel))
    IN [ix EXCEPT !.ids = [j \in 1..Len(js) |-> ix.ids[js[j]]] \o <<>>,
                  !.xb = FlatRows(ix, js)]

\* The outcome of faissIndex.AddWithIDs.
AddWithIDs(ix, x, xids, engineOk) ==
    IF IsNil(ix) THEN [idx |-> ix, err |-> ErrNullPointer, engine |-> FALSE]
    ELSE LET d == D(ix)
             verr == ValidateVectors(x, d)
         IN IF verr # Nil
            THEN [idx |-> ix, err |-> wrapError(verr, "add_with_ids vectors validation"),
                  engine |-> FALSE]
            ELSE IF ~IsTrained(ix)
            THEN [idx |-> ix, err |-> wrapError(ErrIndexNotTrained, "add_with_ids operation"),
                  engine |-> FALSE]
            ELSE LET n == Len(x) \div d
                 IN IF Len(xids) # n
                    THEN [idx |-> ix,
                          err |-> wrapError(<<"number of IDs (" \o ToString(Len(xids))
                                      \o ") doesn't match number of vectors ("
                                      \o ToString(n) \o ")">>, "add_with_ids"),
                          engine |-> FALSE]
                    ELSE IF engineOk
                    THEN [idx |-> EngineAddWithIDs(ix, n, x, xids), err |-> Nil,
                          engine |-> TRUE]
                    ELSE [idx |-> ix,
                          err |-> wrapError(getLastError, "add_with_ids operation"),
                          engine |-> TRUE]

\* The outcome of faissIndex.RemoveIDs: the index, the count and the error.
RemoveIDs(ix, sel, engineOk) ==
    IF IsNil(ix) THEN [idx |-> ix, n |-> 0, err |-> ErrNullPointer, engine |-> FALSE]
    ELSE IF SelectorIsNil(sel)
    THEN [idx |-> ix, n |-> 0, err |-> wrapError(ErrNullPointer, "remove_ids selector"),
          engine |-> FALSE]
    ELSE IF engineOk
    THEN [idx |-> EngineRemoveIDs(ix, sel),
          n |-> Len(ix.ids) - Cardinality(Kept(ix, sel)), err |-> Nil, engine |-> TRUE]
    ELSE [idx |-> ix, n |-> 0, err |-> wrapError(getLastError, "remove_ids operation"),
          engine |-> TRUE]

(***************************************************************************)
(* Files (index_io.go).  The engine writes an index as a list of words:   *)
(* d, the metric, the trained flag and the count, then the labels and the  *)
(* vectors.  It writes into the file at the path itself.                  *)
(***************************************************************************)
NoFile == [exists |-> FALSE, bytes |-> <<>>]
FileOf(bytes) == [exists |-> TRUE, bytes |-> bytes]

\* faiss_write_index_fname: the words of an index
Serialize(ix) ==
    <<ix.d, ix.metric, IF ix.trained THEN 1 ELSE 0, Len(ix.ids)>> \o ix.ids \o ix.xb

\* the words are a complete index
Readable(bytes) ==
    /\ Len(bytes) >= 4
    /\ bytes[1] >= 1
    /\ bytes[3] \in {0, 1}
    /\ Len(bytes) = 4 + bytes[4] + bytes[4] * bytes[1]

\* faiss_read_index_fname: the index of a complete list of words
Deserialize_DefaultMetric(bytes) ==
    [d |-> bytes[1], metric |-> MetricL2, trained |-> (bytes[3] = 1),
     ids |-> SubSeq(bytes, 5, 4 + bytes[4]),
     xb |-> SubSeq(bytes, 5 + bytes[4], Len(bytes))]

Deserialize(bytes) ==
    [d |-> bytes[1], metric |-> bytes[2], trained |-> (bytes[3] = 1),
     ids |-> SubSeq(bytes, 5, 4 + bytes[4]),
     xb |-> SubSeq(bytes, 5 + bytes[4], Len(bytes))]

\* strings.ContainsAny(filename, "<>:\"|?*") for the paths of the model
HasInvalidCharacters(filename) == filename \in {"index?.faiss"}

ValidateFilePath_NoStat(filename, mustExist, f) ==
    IF filename = "" THEN <<"filename is empty">>
    ELSE IF HasInvalidCharacters(filename) THEN <<"filename contains invalid characters">>
    ELSE Nil

\* ValidateFilePath(filename, mustExist) on file f at filename
ValidateFilePath(filename, mustExist, f) ==
    IF filename = "" THEN <<"filename is empty">>
    ELSE IF HasInvalidCharacters(filename) THEN <<"filename contains invalid characters">>
    ELSE IF mustExist /\ ~f.exists THEN <<"file does not exist: " \o filename>>
    ELSE Nil

\* What can happen when WriteIndex(ix, filename) is called: out.kind is "ok",
\* "mkdir" (MkdirAll fails) or "engine" (the engine call fails: it left the file
\* untouched, out.m = -1, or it had opened the file for writing and got out.m
\* words of the index into it: all but the last).
WriteOutcomes(ix) ==
    {[kind |-> "ok", m |-> 0], [kind |-> "mkdir", m |-> 0]}
    \cup {[kind |-> "engine", m |-> m] : m \in {-1, Len(Serialize(ix)) - 1}}

WriteIndex_WritesFirst(ix, filename, f, out) ==
    IF filename = "" THEN [file |-> f, err |-> <<"filename is empty">>]
    ELSE LET verr == ValidateFilePath(filename, FALSE, f)
         IN IF verr # Nil
            THEN [file |-> f, err |-> wrapError(verr, "write index path validation")]
            ELSE IF out.kind = "mkdir"
            THEN [file |-> FileOf(Serialize(ix)),
                  err |-> wrapError(<<"mkdir failed">>, "create directory")]
            ELSE IF out.kind = "engine"
            THEN [file |-> IF out.m < 0 THEN f
                           ELSE FileOf(SubSeq(Serialize(ix), 1, out.m)),
                  err |-> wrapError(getLastError, "write index")]
            ELSE [file |-> FileOf(Serialize(ix)), err |-> Nil]

WriteIndex_IgnoresEngine(ix, filename, f, out) ==
    IF filename = "" THEN [file |-> f, err |-> <<"filename is empty">>]
    ELSE LET verr == ValidateFilePath(filename, FALSE, f)
         IN IF verr # Nil
            THEN [file |-> f, err |-> wrapError(verr, "write index path validation")]
            ELSE IF out.kind = "mkdir"
            THEN [file |-> f, err |-> wrapError(<<"mkdir failed">>, "create directory")]
            ELSE IF out.kind = "engine"
            THEN [file |-> IF out.m < 0 THEN f
                           ELSE FileOf(SubSeq(Serialize(ix), 1, out.m)),
                  err |-> Nil]
            ELSE [file |-> FileOf(Serialize(ix)), err |-> Nil]

\* The outcome of WriteIndex: the file afterwards and the error.
WriteIndex(ix, filename, f, out) ==
    IF filename = "" THEN [file |-> f, err |-> <<"filename is empty">>]
    ELSE LET verr == ValidateFilePath(filename, FALSE, f)
         IN IF verr # Nil
            THEN [file |-> f, err |-> wrapError(verr, "write index path validation")]
            ELSE IF out.kind = "mkdir"
            THEN [file |-> f, err |-> wrapError(<<"mkdir failed">>, "create directory")]
            ELSE IF out.kind = "engine"
            THEN [file |-> IF out.m < 0 THEN f
                           ELSE FileOf(SubSeq(Serialize(ix), 1, out.m)),
                  err |-> wrapError(getLastError, "write index")]
            ELSE [file |-> FileOf(Serialize(ix)), err |-> Nil]

\* The outcome of ReadIndex(filename, 0) on file f: the index and the error.
ReadIndex(filename, f, engineOk) ==
    IF filename = "" THEN [idx |-> NilIndex, err |-> <<"filename is empty">>, engine |-> FALSE]
    ELSE LET verr == ValidateFilePath(filename, TRUE, f)
         IN IF verr # Nil
            THEN [idx |-> NilIndex, err |-> wrapError(verr, "read index path validation"),
                  engine |-> FALSE]
            ELSE IF engineOk /\ Readable(f.bytes)
            THEN [idx |-> Deserialize(f.bytes), err |-> Nil, engine |-> TRUE]
            ELSE [idx |-> NilIndex, err |-> wrapError(getLastError, "read index"),
                  engine |-> TRUE]

(***************************************************************************)
(* State.                                                                 *)
(***************************************************************************)
VARIABLES
    idx,        \* the handle's engine index (faissIndex.idx), NilIndex once freed
    bpc,        \* position of the batch caller: "idle", "AddBatch", "SearchBatch", "done"
    vectors,    \* AddBatch: the vectors argument
    queries,    \* SearchBatch: the queries argument
    k,          \* SearchBatch: the k argument
    batchSize,  \* AddBatch / SearchBatch: batchSize after defaulting and clamping
    i,          \* the loop variable of the running batch call
    distances,  \* SearchBatch: the distances result
    labels,     \* SearchBatch: the labels result
    err,        \* the error the batch call returned (Nil: none, or still running)
    idx0,       \* the index as it was when the batch call was made
    addLog,     \* the Add calls of AddBatch, in order: <<i, end, outcome>>
    searchLog,  \* the Search calls of SearchBatch, in order: <<i, end, outcome>>
    path,       \* PersistentIndex.path
    file,       \* the file at path
    opened,     \* how the PersistentIndex came to be: "no", "factory" or "read"
    mu,         \* PersistentIndex.mu: the goroutine that holds it, 0 when free
    pc,         \* pc[p]: where goroutine p is in its mutating call
    call,       \* call[p]: the mutating call of p, its arguments and its progress
    factoryCalls, \* calls of factory made by the last NewPersistentIndex
    readCalls,  \* calls of ReadIndex made by the last NewPersistentIndex
    clean,      \* the last call that changed the index has returned without error
    first,      \* D, Ntotal and MetricType of the instance that was given up, when
                \* it was given up clean; NoFirst otherwise
    cdb,        \* position of ComputeDistancesBatch: "idle", "SearchBatch", "done"
    resultMatrix, \* ComputeDistancesBatch: the result it returned
    spc,        \* selectors: "idle", "built" (a constructor has returned), "removed"
    sop,        \* the constructor that was called, with its arguments and with
                \* whether the engine's constructor, if called, works
    selector,   \* the selector the constructor returned, NilSelector for nil
    operands,   \* the operand selectors of a composite constructor, after the call
    engineCalls, \* calls of the engine's selector constructors made by the constructor
    nRemoved,   \* what RemoveIDs with the selector returned
    Indices,    \* BatchIndexManager.Indices: the registry, from names to indexes
    dir,        \* the files below BatchIndexManager.BasePath, from paths to contents
    mop,        \* the last call on the manager: "none", "AddIndex", "LoadAll", "SaveAll"
    namesBefore, \* the names of the registry when LoadAll was called last
    fs,         \* the file system of the index_io operations, from paths to files
    fs0,        \* the file system before the last index_io operation
    fop,        \* the last index_io operation and its path arguments
    engineReads, \* calls of faiss_read_index_fname made by the last operation
    nReads,     \* calls of sourceFile.Read made by the last copy
    seen,       \* what the last Ntotal() on the PersistentIndex saw
    builder,    \* the BatchSelectorBuilder: its fields ids and maxID
    builder0,   \* the builder before the last call on it
    appended,   \* the IDs the caller has asked the builder to add since the last Clear
    bop,        \* the last call on the builder, and whether the engine worked in it
    frees,      \* calls of faiss_Index_free made for the handle
    finalizer,  \* the handle has a finalizer set
    dop         \* the last call on the handle by its owner, and whether it
                \* reached the engine

bvars == <<idx, bpc, vectors, queries, k, batchSize, i, distances, labels, err,
           idx0, addLog, searchLog>>
pvars == <<path, file, opened, mu, pc, call, factoryCalls, readCalls>>
xvars == <<clean, first>>
cvars == <<cdb, resultMatrix>>
svars == <<spc, sop, selector, operands, engineCalls, nRemoved>>
mvars == <<Indices, dir, mop, namesBefore>>
fvars == <<fs, fs0, fop, engineReads, nReads>>
evars == <<seen>>
bbvars == <<builder, builder0, appended, bop>>
dvars == <<frees, finalizer, dop>>
zvars == <<fvars, evars, bbvars, dvars>>
ovars == <<svars, mvars, zvars>>
vars == <<idx, bpc, vectors, queries, k, batchSize, i, distances, labels, err,
          idx0, addLog, searchLog,
          path, file, opened, mu, pc, call, factoryCalls, readCalls,
          clean, first, cdb, resultMatrix,
          spc, sop, selector, operands, engineCalls, nRemoved,
          Indices, dir, mop, namesBefore,
          fs, fs0, fop, engineReads, nReads, seen,
          builder, builder0, appended, bop,
          frees, finalizer, dop>>

Procs == 1..NProcs
NoCall == [op |-> "none"]

\* no PersistentIndex is in use
NoFirst == [d |-> 0, ntotal |-> 0, metric |-> 0]
NoConstructor ==
    [op |-> "none", imin |-> 0, imax |-> 0, ids |-> <<>>, maxID |-> 0,
     selectors |-> <<>>, ntotal |-> 0, engineOk |-> TRUE]

\* no BatchIndexManager is in use
NoManager ==
    /\ Indices = <<>>
    /\ dir = <<>>
    /\ mop = "none"
    /\ namesBefore = {}

\* no operation of index_io is in use
NoIndexIO ==
    /\ fs = <<>>
    /\ fs0 = <<>>
    /\ fop = [op |-> "none", src |-> "", dst |-> ""]
    /\ engineReads = 0
    /\ nReads = 0

NoSeen == [ntotal |-> 0, at |-> "none", inFile |-> 0]

\* no method of the Index embedded in a PersistentIndex has been called
NoEmbedded == seen = NoSeen

\* no BatchSelectorBuilder is in use
NoBuilder ==
    /\ builder = <<>>
    /\ builder0 = <<>>
    /\ appended = <<>>
    /\ bop = [op |-> "none", engineOk |-> TRUE]

NoHandleOp == [op |-> "none", engine |-> FALSE]

\* the life of the handle is not followed
NoHandle ==
    /\ frees = 0
    /\ finalizer = FALSE
    /\ dop = NoHandleOp

\* nothing but the part a specification is about is in use
NoOthers == NoIndexIO /\ NoEmbedded /\ NoBuilder /\ NoHandle

\* no selector is being built
NoSelector ==
    /\ spc = "idle"
    /\ sop = NoConstructor
    /\ selector = [kind |-> "nil"]
    /\ operands = <<>>
    /\ engineCalls = 0
    /\ nRemoved = 0

NoPersistentIndex ==
    /\ clean = FALSE
    /\ first = NoFirst
    /\ path = ""
    /\ file = NoFile
    /\ opened = "no"
    /\ mu = 0
    /\ pc = [p \in Procs |-> "idle"]
    /\ call = [p \in Procs |-> NoCall]
    /\ factoryCalls = 0
    /\ readCalls = 0

\* all buffers of at most n components, well-formed or not
Buffers(n) == UNION {[1..m -> Vals] : m \in 0..n}

\* the batch sizes a caller passes for a buffer of n rows
BatchSizes(n) == {-1, 0, 1, 2, n \div 2, n, n + 10}

\* the indexes a caller can have built before the batch call: up to MaxTotal
\* rows with sequential labels; an index that is not trained holds no row
StartIndexes ==
    UNION {UNION {UNION {
        {[NewIndex(d, m, TRUE) EXCEPT !.ids = [j \in 1..n |-> j - 1], !.xb = b] :
            b \in [1..(n * d) -> Vals]}
        \cup {NewIndex(d, m, FALSE)} :
        n \in 0..MaxTotal} : m \in {MetricL2, MetricInnerProduct}} : d \in 1..MaxD}

InitB ==
    /\ idx \in StartIndexes
    /\ bpc = "idle"
    /\ vectors = <<>>
    /\ queries = <<>>
    /\ k = 0
    /\ batchSize = 0
    /\ i = 0
    /\ distances = <<>>
    /\ labels = <<>>
    /\ err = Nil
    /\ idx0 = idx
    /\ addLog = <<>>
    /\ searchLog = <<>>
    /\ NoPersistentIndex
    /\ cdb = "idle"
    /\ resultMatrix = <<>>
    /\ NoSelector
    /\ NoManager
    /\ NoOthers

EffectiveBatchSize_NoClamp(bs, default, total) == IF bs <= 0 THEN default ELSE bs

\* the set of the elements of a sequence
Range(s) == {s[j] : j \in 1..Len(s)}

\* batchSize as the loop uses it: the default for a size <= 0, at most total
EffectiveBatchSize(bs, default, total) ==
    LET bs1 == IF bs <= 0 THEN default ELSE bs
    IN IF bs1 > total THEN total ELSE bs1

ChunkEnd_SkipsRow(ii, bs, total) == IF ii + bs > total THEN total ELSE ii + bs - 1

\* the row after the last row of the chunk that starts at row ii
ChunkEnd(ii, bs, total) == IF ii + bs > total THEN total ELSE ii + bs

BatchContext_NamesEnd(op, ii, end) == op \o " " \o ToString(ii) \o "-" \o ToString(end)

\* fmt.Sprintf("add batch %d-%d", i, end-1): the context of a failed chunk
BatchContext(op, ii, end) == op \o " " \o ToString(ii) \o "-" \o ToString(end - 1)

\* how a call of Add or Search inside a chunk ended
Outcome(r) == IF r.err = Nil THEN "ok" ELSE IF r.engine THEN "engine failed" ELSE "rejected"

(***************************************************************************)
(* faissIndex.AddBatch, index.go 289-333.  The call runs up to the loop;  *)
(* every iteration of the loop is a step of its own (one engine call).    *)
(***************************************************************************)
AddBatchCall(v, bs) ==
    /\ bpc = "idle"
    /\ vectors' = v
    /\ i' = 0
    /\ UNCHANGED <<idx, idx0, addLog, queries, k, distances, labels, searchLog>>
    /\ UNCHANGED <<pvars, xvars, cvars, ovars>>
    /\ IF IsNil(idx)
       THEN /\ err' = ErrNullPointer
            /\ bpc' = "done"
            /\ UNCHANGED batchSize
       ELSE LET bs1 == IF bs <= 0 THEN DefaultAddBatchSize ELSE bs
                d == D(idx)
                verr == ValidateVectors(v, d)
                totalVectors == Len(v) \div d
            IN IF verr # Nil
               THEN /\ err' = wrapError(verr, "add batch vectors validation")
                    /\ bpc' = "done"
                    /\ batchSize' = bs1
               ELSE IF ~IsTrained(idx)
               THEN /\ err' = wrapError(ErrIndexNotTrained, "add batch operation")
                    /\ bpc' = "done"
                    /\ batchSize' = bs1
               ELSE IF totalVectors = 0
               THEN /\ err' = Nil
                    /\ bpc' = "done"
                    /\ batchSize' = bs1
               ELSE /\ err' = Nil
                    /\ batchSize' = EffectiveBatchSize(bs, DefaultAddBatchSize, totalVectors)
                    /\ bpc' = "AddBatch"

AddBatchChunk(engineOk) ==
    /\ bpc = "AddBatch"
    /\ LET d == D(idx)
           totalVectors == Len(vectors) \div d
           end == ChunkEnd(i, batchSize, totalVectors)
           batch == Slice(vectors, i * d, end * d)
       IN \E r \in {Add(idx, batch, engineOk)} :
          /\ i < totalVectors
          /\ idx' = r.idx
          /\ addLog' = Append(addLog, <<i, end, Outcome(r)>>)
          /\ IF r.err # Nil
             THEN /\ err' = wrapError(r.err, BatchContext("add batch", i, end))
                  /\ bpc' = "done"
                  /\ i' = i
             ELSE /\ err' = Nil
                  /\ i' = i + batchSize
                  /\ bpc' = IF i + batchSize < totalVectors THEN "AddBatch" ELSE "done"
    /\ UNCHANGED <<vectors, batchSize, idx0, queries, k, distances, labels, searchLog>>
    /\ UNCHANGED <<pvars, xvars, cvars, ovars>>

(***************************************************************************)
(* faissIndex.SearchBatch, index.go 226-287.                              *)
(***************************************************************************)
SearchBatchCall(q, kk, bs) ==
    /\ bpc = "idle"
    /\ queries' = q
    /\ k' = kk
    /\ i' = 0
    /\ UNCHANGED <<idx, idx0, addLog, vectors, searchLog>>
    /\ UNCHANGED <<pvars, xvars, ovars>>
    /\ IF IsNil(idx)
       THEN /\ err' = ErrNullPointer
            /\ bpc' = "done"
            /\ UNCHANGED <<batchSize, distances, labels>>
       ELSE LET bs1 == IF bs <= 0 THEN DefaultSearchBatchSize ELSE bs
                d == D(idx)
                verr == ValidateVectors(q, d)
                totalQueries == Len(q) \div d
            IN IF verr # Nil
               THEN /\ err' = wrapError(verr, "search batch queries validation")
                    /\ bpc' = "done"
                    /\ batchSize' = bs1
                    /\ UNCHANGED <<distances, labels>>
               ELSE IF ~IsTrained(idx)
               THEN /\ err' = wrapError(ErrIndexNotTrained, "search batch operation")
                    /\ bpc' = "done"
                    /\ batchSize' = bs1
                    /\ UNCHANGED <<distances, labels>>
               ELSE IF totalQueries = 0
               THEN /\ err' = Nil
                    /\ bpc' = "done"
                    /\ batchSize' = bs1
                    /\ distances' = <<>>
                    /\ labels' = <<>>
               ELSE /\ err' = Nil
                    /\ batchSize' = EffectiveBatchSize(bs, DefaultSearchBatchSize, totalQueries)
                    /\ distances' = [qi \in 1..totalQueries |-> <<>>]
                    /\ labels' = [qi \in 1..totalQueries |-> <<>>]
                    /\ bpc' = "SearchBatch"

Distribute_AtChunkOffset(result, batch, ii, end, kk) ==
    [qi \in 1..Len(result) |->
        LET j == qi - 1
        IN IF j >= 0 /\ j < end - ii
           THEN Slice(batch, j * kk, j * kk + kk)
           ELSE result[qi]]

\* the inner loop of SearchBatch: the rows of the chunk [ii, end) take their
\* k results out of the chunk's flat result
Distribute(result, batch, ii, end, kk) ==
    [qi \in 1..Len(result) |->
        LET queryIdx == qi - 1
            j == queryIdx - ii
        IN IF j >= 0 /\ j < end - ii
           THEN Slice(batch, j * kk, j * kk + kk)
           ELSE result[qi]]

SearchBatchChunk(engineOk) ==
    /\ bpc = "SearchBatch"
    /\ LET d == D(idx)
           totalQueries == Len(queries) \div d
           end == ChunkEnd(i, batchSize, totalQueries)
           batch == Slice(queries, i * d, end * d)
       IN \E r \in {Search(idx, batch, k, engineOk)} :
          /\ i < totalQueries
          /\ searchLog' = Append(searchLog, <<i, end, Outcome(r)>>)
          /\ IF r.err # Nil
             THEN /\ err' = wrapError(r.err, BatchContext("search batch", i, end))
                  /\ distances' = <<>>
                  /\ labels' = <<>>
                  /\ bpc' = "done"
                  /\ i' = i
             ELSE /\ err' = Nil
                  /\ distances' = Distribute(distances, r.distances, i, end, k)
                  /\ labels' = Distribute(labels, r.labels, i, end, k)
                  /\ i' = i + batchSize
                  /\ bpc' = IF i + batchSize < totalQueries THEN "SearchBatch" ELSE "done"
    /\ UNCHANGED <<idx, vectors, queries, k, batchSize, idx0, addLog>>
    /\ UNCHANGED <<pvars, xvars, cvars, ovars>>

\* the caller's choice of arguments
AddBatch ==
    /\ bpc = "idle"
    /\ UNCHANGED cvars
    /\ \E v \in Buffers(MaxRows * D(idx)) : \E bs \in BatchSizes(Len(v) \div D(idx)) :
          AddBatchCall(v, bs)

SearchBatch ==
    /\ bpc = "idle"
    /\ UNCHANGED cvars
    /\ \E q \in Buffers(MaxRows * D(idx)) : \E kk \in 0..MaxK :
          \E bs \in BatchSizes(Len(q) \div D(idx)) : SearchBatchCall(q, kk, bs)

\* IndexFlat.ComputeDistancesBatch(queries, batchSize) up to its SearchBatch call
ComputeDistancesBatchCall(q, bs) ==
    /\ bpc = "idle"
    /\ cdb = "idle"
    /\ resultMatrix' = <<>>
    /\ LET verr == ValidateVectors(q, D(idx))
           rejected == IF IsNil(idx) THEN <<"index is nil">>
                       ELSE IF verr # Nil THEN wrapError(verr, "validate queries")
                       ELSE IF Ntotal(idx) = 0 THEN <<"index is empty">>
                       ELSE Nil
       IN IF rejected # Nil
          THEN /\ err' = rejected
               /\ bpc' = "done"
               /\ cdb' = "done"
               /\ queries' = q
               /\ UNCHANGED <<idx, idx0, addLog, vectors, searchLog, k, i, batchSize,
                              distances, labels, pvars, xvars, ovars>>
          ELSE /\ SearchBatchCall(q, Ntotal(idx),
                                  IF bs <= 0 THEN DefaultSearchBatchSize ELSE bs)
               /\ cdb' = "SearchBatch"

\* the matrix ComputeDistancesBatch builds from the lists SearchBatch returned:
\* result[i*ntotal+j], zero where the loop copies nothing
FillResult(dist, numQueries, ntotal) ==
    [p \in 1..(numQueries * ntotal) |->
        LET ii == (p - 1) \div ntotal
            j == (p - 1) % ntotal
        IN IF ii < Len(dist) /\ ii < Len(dist[ii + 1]) /\ j < Len(dist[ii + 1])
           THEN dist[ii + 1][j + 1]
           ELSE 0]

\* ComputeDistancesBatch after SearchBatch has returned
ComputeDistancesBatchReturn ==
    /\ cdb = "SearchBatch"
    /\ bpc = "done"
    /\ cdb' = "done"
    /\ IF err # Nil
       THEN /\ err' = wrapError(err, "compute distances batch")
            /\ resultMatrix' = <<>>
       ELSE /\ err' = Nil
            /\ resultMatrix' = FillResult(distances, Len(queries) \div D(idx), Ntotal(idx))
    /\ UNCHANGED <<idx, bpc, vectors, queries, k, batchSize, i, distances, labels, idx0,
                   addLog, searchLog, pvars, xvars, ovars>>

ComputeDistancesBatch ==
    /\ bpc = "idle"
    /\ \E q \in Buffers(MaxRows * D(idx)) : \E bs \in BatchSizes(Len(q) \div D(idx)) :
          ComputeDistancesBatchCall(q, bs)

NextB ==
    \/ AddBatch
    \/ \E ok \in BOOLEAN : AddBatchChunk(ok)
    \/ SearchBatch
    \/ \E ok \in BOOLEAN : SearchBatchChunk(ok)
    \/ ComputeDistancesBatch
    \/ ComputeDistancesBatchReturn

SpecB == InitB /\ [][NextB]_vars

(***************************************************************************)
(* PersistentIndex.  NewPersistentIndex is one step.  A mutating call of   *)
(* goroutine p is the steps Call (p.mu.Lock() is reached), Lock (the lock *)
(* is taken), Mutate (the call on the embedded Index), Persist (WriteIndex)*)
(* and Unlock (the deferred p.mu.Unlock(), with which the call returns).  *)
(***************************************************************************)
\* the indexes the caller's factory builds
Factories == {NewIndex(1, MetricL2, TRUE), NewIndex(2, MetricInnerProduct, TRUE)}

\* the files found at path when the program starts: none, an index written
\* earlier, or a file that is no index
StartFiles ==
    {NoFile, FileOf(<<>>)}
    \cup {FileOf(Serialize(ix)) : ix \in Factories}
    \cup {FileOf(Serialize(EngineAdd(ix, 1, [c \in 1..ix.d |-> 0]))) : ix \in Factories}

InitP ==
    /\ idx = NilIndex
    /\ bpc = "idle"
    /\ vectors = <<>>
    /\ queries = <<>>
    /\ k = 0
    /\ batchSize = 0
    /\ i = 0
    /\ distances = <<>>
    /\ labels = <<>>
    /\ err = Nil
    /\ idx0 = NilIndex
    /\ addLog = <<>>
    /\ searchLog = <<>>
    /\ path \in {"index.faiss", "index?.faiss"}
    /\ file \in StartFiles
    /\ clean = FALSE
    /\ first = NoFirst
    /\ cdb = "idle"
    /\ resultMatrix = <<>>
    /\ NoSelector
    /\ NoManager
    /\ NoOthers
    /\ opened = "no"
    /\ mu = 0
    /\ pc = [p \in Procs |-> "idle"]
    /\ call = [p \in Procs |-> NoCall]
    /\ factoryCalls = 0
    /\ readCalls = 0

AfterMutate_Retries(merr) == IF merr # Nil THEN "Mutate" ELSE "Persist"

IsNotExist_AnyError(stat) == stat # "exists"

\* os.IsNotExist(err) of what os.Stat reports
IsNotExist(stat) == stat = "not exist"

\* NewPersistentIndex(path, factory), part_001 19-40.  stat is what os.Stat
\* reports; proto is what factory returns when it returns an index.
NewPersistentIndex(stat, proto, factoryOk, engineOk) ==
    /\ opened = "no"
    /\ stat \in (IF file.exists THEN {"exists", "error"} ELSE {"not exist", "error"})
    /\ IF IsNotExist(stat)
       THEN /\ factoryCalls' = 1
            /\ readCalls' = 0
            /\ IF factoryOk
               THEN /\ idx' = proto
                    /\ opened' = "factory"
                    /\ err' = Nil
               ELSE /\ err' = <<"factory error", "factory failed">>
                    /\ UNCHANGED <<idx, opened>>
       ELSE IF stat = "error"
       THEN /\ err' = <<"stat error", "stat failed">>
            /\ factoryCalls' = 0
            /\ readCalls' = 0
            /\ UNCHANGED <<idx, opened>>
       ELSE \E r \in {ReadIndex(path, file, engineOk)} :
            /\ factoryCalls' = 0
            /\ readCalls' = 1
            /\ IF r.err # Nil
               THEN /\ err' = wrapError(r.err, "read index error")
                    /\ UNCHANGED <<idx, opened>>
               ELSE /\ idx' = r.idx
                    /\ opened' = "read"
                    /\ err' = Nil
    /\ UNCHANGED <<bpc, vectors, queries, k, batchSize, i, distances, labels, idx0,
                   addLog, searchLog, path, file, mu, pc, call, xvars, cvars, ovars>>

Open ==
    /\ opened = "no"
    /\ \E stat \in {"exists", "not exist", "error"}, proto \in Factories,
          factoryOk \in BOOLEAN, engineOk \in BOOLEAN :
          NewPersistentIndex(stat, proto, factoryOk, engineOk)

\* the arguments of the mutating calls
AddCall(x) == [op |-> "Add", x |-> x, xids |-> <<>>, sel |-> NilSelector]
AddWithIDsCall(x, xids) == [op |-> "AddWithIDs", x |-> x, xids |-> xids, sel |-> NilSelector]
RemoveIDsCall(sel) == [op |-> "RemoveIDs", x |-> <<>>, xids |-> <<>>, sel |-> sel]

\* the calls the goroutines make on an index of dimension d
Calls(d) ==
    {AddCall(x) : x \in {<<>>} \cup {[c \in 1..d |-> v] : v \in Vals}}
    \cup {AddWithIDsCall([c \in 1..d |-> 0], xids) :
            xids \in {<<>>} \cup {<<id>> : id \in 0..MaxID}}
    \cup {RemoveIDsCall(sel) :
            sel \in {NilSelector, RangeSelector(0, 1), BatchSelector(<<MaxID>>)}}

\* a goroutine calls Add, AddWithIDs or RemoveIDs of the PersistentIndex
Call(p, c) ==
    /\ opened # "no"
    /\ pc[p] = "idle"
    /\ pc' = [pc EXCEPT ![p] = "Lock"]
    /\ call' = [call EXCEPT ![p] =
                  [op |-> c.op, x |-> c.x, xids |-> c.xids, sel |-> c.sel,
                   mem |-> "pending", writes |-> 0, n |-> 0, err |-> Nil,
                   idx0 |-> NilIndex, file0 |-> NoFile]]
    /\ first' = NoFirst
    /\ UNCHANGED <<bvars, path, file, opened, mu, factoryCalls, readCalls, clean, cvars, ovars>>

Lock_NoWait(p) ==
    /\ pc[p] = "Lock"
    /\ mu' = p
    /\ pc' = [pc EXCEPT ![p] = "Mutate"]
    /\ call' = [call EXCEPT ![p].idx0 = idx, ![p].file0 = file]
    /\ UNCHANGED <<bvars, path, file, opened, factoryCalls, readCalls, xvars, cvars, ovars>>

\* p.mu.Lock() returns; idx0 and file0 record the index and the file at that time
Lock(p) ==
    /\ pc[p] = "Lock"
    /\ mu = 0
    /\ mu' = p
    /\ pc' = [pc EXCEPT ![p] = "Mutate"]
    /\ call' = [call EXCEPT ![p].idx0 = idx, ![p].file0 = file]
    /\ UNCHANGED <<bvars, path, file, opened, factoryCalls, readCalls, xvars, cvars, ovars>>

\* the call on the embedded Index
MutateResult(c, ix, engineOk) ==
    IF c.op = "Add"
    THEN LET r == Add(ix, c.x, engineOk) IN [idx |-> r.idx, n |-> 0, err |-> r.err]
    ELSE IF c.op = "AddWithIDs"
    THEN LET r == AddWithIDs(ix, c.x, c.xids, engineOk)
         IN [idx |-> r.idx, n |-> 0, err |-> r.err]
    ELSE LET r == RemoveIDs(ix, c.sel, engineOk)
         IN [idx |-> r.idx, n |-> r.n, err |-> r.err]

AfterMutate_AlwaysPersists(merr) == "Persist"

\* where the call goes after the call on the embedded Index returned merr
AfterMutate(merr) == IF merr # Nil THEN "Unlock" ELSE "Persist"

Mutate(p, engineOk) ==
    /\ pc[p] = "Mutate"
    /\ \E r \in {MutateResult(call[p], idx, engineOk)} :
          /\ Ntotal(r.idx) <= MaxStored
          /\ idx' = r.idx
          /\ pc' = [pc EXCEPT ![p] = AfterMutate(r.err)]
          /\ call' = [call EXCEPT ![p].mem = IF r.err = Nil THEN "ok" ELSE "failed",
                                  ![p].n = IF r.err = Nil THEN r.n ELSE 0,
                                  ![p].err = r.err]
          /\ clean' = IF r.err = Nil THEN FALSE ELSE clean
    /\ UNCHANGED <<bpc, vectors, queries, k, batchSize, i, distances, labels, err, idx0,
                   addLog, searchLog, path, file, opened, mu, factoryCalls,
                   readCalls, first, cvars, ovars>>

\* WriteIndex(p.Index, p.path) and the return statement
Persist(p, out) ==
    /\ pc[p] = "Persist"
    /\ out \in WriteOutcomes(idx)
    /\ \E w \in {WriteIndex(idx, path, file, out)} :
          /\ file' = w.file
          /\ call' = [call EXCEPT ![p].writes = @ + 1, ![p].err = w.err]
    /\ pc' = [pc EXCEPT ![p] = "Unlock"]
    /\ UNCHANGED <<bvars, path, opened, mu, factoryCalls, readCalls, xvars, cvars, ovars>>

Unlock_OnlyOnSuccess(p) ==
    /\ pc[p] = "Unlock"
    /\ mu' = IF call[p].err = Nil THEN 0 ELSE mu
    /\ pc' = [pc EXCEPT ![p] = "idle"]
    /\ call' = [call EXCEPT ![p] = NoCall]
    /\ clean' = IF call[p].mem = "ok" THEN call[p].err = Nil ELSE clean
    /\ UNCHANGED <<bvars, path, file, opened, factoryCalls, readCalls, first, cvars, ovars>>

\* the deferred p.mu.Unlock(): the call returns what it has set
Unlock(p) ==
    /\ pc[p] = "Unlock"
    /\ mu' = 0
    /\ pc' = [pc EXCEPT ![p] = "idle"]
    /\ call' = [call EXCEPT ![p] = NoCall]
    /\ clean' = IF call[p].mem = "ok" THEN call[p].err = Nil ELSE clean
    /\ UNCHANGED <<bvars, path, file, opened, factoryCalls, readCalls, first, cvars, ovars>>

\* the instance is given up (the program ends, or lets go of it) while no call
\* is running; the file stays
GiveUp ==
    /\ opened # "no"
    /\ \A p \in Procs : pc[p] = "idle"
    /\ opened' = "no"
    /\ first' = IF clean
                THEN [d |-> D(idx), ntotal |-> Ntotal(idx), metric |-> MetricType(idx)]
                ELSE NoFirst
    /\ clean' = FALSE
    /\ idx' = NilIndex
    /\ UNCHANGED <<bpc, vectors, queries, k, batchSize, i, distances, labels, err, idx0,
                   addLog, searchLog, path, file, mu, pc, call, factoryCalls,
                   readCalls, cvars, ovars>>

CallAny(p) == opened # "no" /\ pc[p] = "idle" /\ \E c \in Calls(D(idx)) : Call(p, c)
MutateAny(p) == \E engineOk \in BOOLEAN : Mutate(p, engineOk)
PersistAny(p) == pc[p] = "Persist" /\ \E out \in WriteOutcomes(idx) : Persist(p, out)

NextP ==
    \/ Open
    \/ GiveUp
    \/ \E p \in Procs : CallAny(p)
    \/ \E p \in Procs : Lock(p)
    \/ \E p \in Procs : MutateAny(p)
    \/ \E p \in Procs : PersistAny(p)
    \/ \E p \in Procs : Unlock(p)

SpecP == InitP /\ [][NextP]_vars

\* The calls on the engine and on the file system terminate, so a goroutine
\* inside a call goes on; a goroutine blocked in sync.RWMutex.Lock is handed the
\* lock in turn (the mutex does not starve a waiter), which is strong fairness
\* of Lock.
FairnessP ==
    \A p \in Procs :
        /\ SF_vars(Lock(p))
        /\ WF_vars(MutateAny(p))
        /\ WF_vars(PersistAny(p))
        /\ WF_vars(Unlock(p))

\* the liveness check starts with no file at path or with an empty index there
LiveStartFiles == {NoFile, FileOf(Serialize(NewIndex(1, MetricL2, TRUE)))}

LiveInitP == InitP /\ file \in LiveStartFiles

LiveSpecP == LiveInitP /\ [][NextP]_vars /\ FairnessP

(***************************************************************************)
(* The batch calls on a handle and the mutating calls on a PersistentIndex *)
(* side by side: a program that starts with a handle makes the batch       *)
(* calls, one that starts with a path opens a PersistentIndex.             *)
(***************************************************************************)
InitN == InitB \/ InitP

NextN ==
    \/ (path = "" /\ NextB)
    \/ (path # "" /\ NextP)

SpecN == InitN /\ [][NextN]_vars

(***************************************************************************)
(* The methods a PersistentIndex does not define itself: they are the      *)
(* methods of the embedded Index (part_001 11-15), reached without the     *)
(* lock of the instance and without WriteIndex.  A call of one of them is  *)
(* one step.                                                               *)
(***************************************************************************)
\* The outcome of faissIndex.Reset, index.go 334-343
Reset(ix, engineOk) ==
    IF IsNil(ix) THEN [idx |-> ix, err |-> ErrNullPointer, engine |-> FALSE]
    ELSE IF engineOk
    THEN [idx |-> [ix EXCEPT !.ids = <<>>, !.xb = <<>>], err |-> Nil, engine |-> TRUE]
    ELSE [idx |-> ix, err |-> wrapError(getLastError, "reset operation"), engine |-> TRUE]

\* The outcome of faissIndex.Train, index.go 120-135
Train(ix, x, engineOk) ==
    IF IsNil(ix) THEN [idx |-> ix, err |-> ErrNullPointer, engine |-> FALSE]
    ELSE LET verr == ValidateVectors(x, D(ix))
         IN IF verr # Nil
            THEN [idx |-> ix, err |-> wrapError(verr, "train vectors validation"),
                  engine |-> FALSE]
            ELSE IF engineOk
            THEN [idx |-> [ix EXCEPT !.trained = TRUE], err |-> Nil, engine |-> TRUE]
            ELSE [idx |-> ix, err |-> wrapError(getLastError, "train operation"),
                  engine |-> TRUE]

RECURSIVE AddBatchFrom(_, _, _, _, _)
\* the loop of faissIndex.AddBatch from row ii on; the engine fails in the
\* chunk that starts at row failAt
AddBatchFrom(ix, v, bs, ii, failAt) ==
    LET d == D(ix)
        totalVectors == Len(v) \div d
        end == ChunkEnd(ii, bs, totalVectors)
        r == Add(ix, Slice(v, ii * d, end * d), ii # failAt)
    IN IF ii >= totalVectors THEN [idx |-> ix, err |-> Nil]
       ELSE IF r.err # Nil
       THEN [idx |-> r.idx, err |-> wrapError(r.err, BatchContext("add batch", ii, end))]
       ELSE AddBatchFrom(r.idx, v, bs, ii + bs, failAt)

\* The outcome of a whole faissIndex.AddBatch(v, bs), index.go 289-333
AddBatchResult(ix, v, bs, failAt) ==
    IF IsNil(ix) THEN [idx |-> ix, err |-> ErrNullPointer]
    ELSE LET d == D(ix)
             verr == ValidateVectors(v, d)
             totalVectors == Len(v) \div d
         IN IF verr # Nil
            THEN [idx |-> ix, err |-> wrapError(verr, "add batch vectors validation")]
            ELSE IF ~IsTrained(ix)
            THEN [idx |-> ix, err |-> wrapError(ErrIndexNotTrained, "add batch operation")]
            ELSE IF totalVectors = 0 THEN [idx |-> ix, err |-> Nil]
            ELSE AddBatchFrom(ix, v,
                              EffectiveBatchSize(bs, DefaultAddBatchSize, totalVectors),
                              0, failAt)

\* the calls of promoted methods the goroutines make on an index of dimension d
EmbeddedCalls(d) ==
    {[op |-> "Reset", x |-> <<>>], [op |-> "Train", x |-> [c \in 1..d |-> 0]],
     [op |-> "AddBatch", x |-> [c \in 1..d |-> 1]]}

\* the outcome of the promoted method
EmbeddedResult(c, ix, engineOk) ==
    IF c.op = "Reset" THEN Reset(ix, engineOk)
    ELSE IF c.op = "Train" THEN Train(ix, c.x, engineOk)
    ELSE AddBatchResult(ix, c.x, 0, IF engineOk THEN -1 ELSE 0)

\* goroutine p calls p.Reset(), p.Train(x) or p.AddBatch(x, 0) and it returns
Embedded(p, c, engineOk) ==
    /\ opened # "no"
    /\ pc[p] = "idle"
    /\ \E r \in {EmbeddedResult(c, idx, engineOk)} :
          /\ Ntotal(r.idx) <= MaxStored
          /\ idx' = r.idx
          /\ err' = r.err
          /\ clean' = IF r.idx = idx THEN clean ELSE FALSE
    /\ first' = NoFirst
    /\ UNCHANGED <<bpc, vectors, queries, k, batchSize, i, distances, labels, idx0,
                   addLog, searchLog, pvars, cvars, svars, mvars, fvars, seen, bbvars,
                   dvars>>

Ntotal_UnderLock(p) ==
    /\ opened # "no"
    /\ pc[p] = "idle"
    /\ mu = 0
    /\ seen' = [ntotal |-> Ntotal(idx),
                at |-> IF mu = 0 THEN "unlocked" ELSE pc[mu],
                inFile |-> IF Readable(file.bytes) THEN Ntotal(Deserialize(file.bytes))
                           ELSE -1]
    /\ UNCHANGED <<bvars, pvars, xvars, cvars, svars, mvars, fvars, bbvars, dvars>>

\* goroutine p calls p.Ntotal(), the method of the embedded Index, and it
\* returns; seen records what it returned, where the goroutine that held the
\* lock at that time was in its call ("unlocked" when none held it), and the
\* count the file held (-1 when it held no index)
NtotalCall(p) ==
    /\ opened # "no"
    /\ pc[p] = "idle"
    /\ seen' = [ntotal |-> Ntotal(idx),
                at |-> IF mu = 0 THEN "unlocked" ELSE pc[mu],
                inFile |-> IF Readable(file.bytes) THEN Ntotal(Deserialize(file.bytes))
                           ELSE -1]
    /\ UNCHANGED <<bvars, pvars, xvars, cvars, svars, mvars, fvars, bbvars, dvars>>

EmbeddedAny(p) ==
    opened # "no" /\ \E c \in EmbeddedCalls(D(idx)), engineOk \in BOOLEAN :
                        Embedded(p, c, engineOk)

\* the calls of Add and RemoveIDs a goroutine makes next to the promoted methods
CallE(p) ==
    /\ opened # "no"
    /\ pc[p] = "idle"
    /\ \E c \in {AddCall([j \in 1..D(idx) |-> 0]), RemoveIDsCall(RangeSelector(0, 1))} :
          Call(p, c)

\* the goroutines that call Add, AddWithIDs and RemoveIDs, and those that
\* call the promoted methods
Writers == {1}
Others == Procs \ Writers

\* the PersistentIndex with all the methods of its method set
NextE ==
    \/ Open
    \/ \E p \in Writers : CallE(p)
    \/ \E p \in Writers : Lock(p)
    \/ \E p \in Writers : MutateAny(p)
    \/ \E p \in Writers : PersistAny(p)
    \/ \E p \in Writers : Unlock(p)
    \/ \E p \in Others : EmbeddedAny(p)
    \/ \E p \in Others : NtotalCall(p)

\* a PersistentIndex opened on no file or on the file of an index
InitE == InitP /\ path = "index.faiss" /\ file \in LiveStartFiles

SpecE == InitE /\ [][NextE]_vars

(***************************************************************************)
(* Selector construction, selector.go.  The outcome of a constructor is   *)
(* the selector (NilSelector for nil), the error and the number of calls  *)
(* of the engine's selector constructors it made.                         *)
(***************************************************************************)
NoSelectorBuilt(e) == [sel |-> NilSelector, err |-> e, engine |-> 0]

NewIDSelectorRange_AllowsEmpty(imin, imax, engineOk) ==
    IF imin < 0 \/ imax < 0
    THEN NoSelectorBuilt(<<"invalid range: imin=" \o ToString(imin) \o ", imax="
                           \o ToString(imax) \o " (must be non-negative)">>)
    ELSE IF imin > imax
    THEN NoSelectorBuilt(<<"invalid range: imin=" \o ToString(imin) \o " >= imax="
                           \o ToString(imax)>>)
    ELSE IF ~engineOk
    THEN [sel |-> NilSelector, err |-> wrapError(getLastError, "IDSelectorRange creation"),
          engine |-> 1]
    ELSE [sel |-> RangeSelector(imin, imax), err |-> Nil, engine |-> 1]

\* NewIDSelectorRange(imin, imax), selector.go 21-38
NewIDSelectorRange(imin, imax, engineOk) ==
    IF imin < 0 \/ imax < 0
    THEN NoSelectorBuilt(<<"invalid range: imin=" \o ToString(imin) \o ", imax="
                           \o ToString(imax) \o " (must be non-negative)">>)
    ELSE IF imin >= imax
    THEN NoSelectorBuilt(<<"invalid range: imin=" \o ToString(imin) \o " >= imax="
                           \o ToString(imax)>>)
    ELSE IF ~engineOk
    THEN [sel |-> NilSelector, err |-> wrapError(getLastError, "IDSelectorRange creation"),
          engine |-> 1]
    ELSE [sel |-> RangeSelector(imin, imax), err |-> Nil, engine |-> 1]

\* the first position (from 1) at which a loop over bad, the sequence that
\* tells of each element whether it fails the loop's test, stops; 0 when it
\* runs to the end
FirstIndex(bad) ==
    IF \E j \in 1..Len(bad) : bad[j]
    THEN CHOOSE j \in 1..Len(bad) : bad[j] /\ \A h \in 1..(j - 1) : ~bad[h]
    ELSE 0

\* NewIDSelectorBatch(indices), selector.go 42-66
NewIDSelectorBatch(indices, engineOk) ==
    LET Negative(id) == id < 0
        j == FirstIndex([h \in 1..Len(indices) |-> Negative(indices[h])])
    IN IF Len(indices) = 0 THEN NoSelectorBuilt(<<"empty indices slice">>)
       ELSE IF j # 0
       THEN NoSelectorBuilt(<<"invalid ID at index " \o ToString(j - 1) \o ": "
                              \o ToString(indices[j]) \o " (must be non-negative)">>)
       ELSE IF ~engineOk
       THEN [sel |-> NilSelector,
             err |-> wrapError(getLastError, "IDSelectorBatch creation"), engine |-> 1]
       ELSE [sel |-> BatchSelector(indices), err |-> Nil, engine |-> 1]

ValidateIDs_InclusiveMax(ids, maxID) ==
    LET Bad(id) == id < 0 \/ (maxID >= 0 /\ id > maxID)
        j == FirstIndex([h \in 1..Len(ids) |-> Bad(ids[h])])
    IN IF Len(ids) = 0 THEN <<"empty IDs slice">>
       ELSE IF j = 0 THEN Nil
       ELSE IF ids[j] < 0
       THEN <<"negative ID at index " \o ToString(j - 1) \o ": " \o ToString(ids[j])>>
       ELSE <<"ID at index " \o ToString(j - 1) \o " (" \o ToString(ids[j])
              \o ") >= maxID (" \o ToString(maxID) \o ")">>

\* ValidateIDs(ids, maxID), selector.go 137-152
ValidateIDs(ids, maxID) ==
    LET Bad(id) == id < 0 \/ (maxID >= 0 /\ id >= maxID)
        j == FirstIndex([h \in 1..Len(ids) |-> Bad(ids[h])])
    IN IF Len(ids) = 0 THEN <<"empty IDs slice">>
       ELSE IF j = 0 THEN Nil
       ELSE IF ids[j] < 0
       THEN <<"negative ID at index " \o ToString(j - 1) \o ": " \o ToString(ids[j])>>
       ELSE <<"ID at index " \o ToString(j - 1) \o " (" \o ToString(ids[j])
              \o ") >= maxID (" \o ToString(maxID) \o ")">>

RECURSIVE InsertSorted(_, _)
\* x put into the ascending sequence s
InsertSorted(x, s) ==
    IF s = <<>> THEN <<x>>
    ELSE IF x <= s[1] THEN <<x>> \o s
    ELSE <<s[1]>> \o InsertSorted(x, Tail(s))

RECURSIVE SortIDs(_)
\* sort.Slice(ids, ids[i] < ids[j]): ids in ascending order, duplicates kept
SortIDs(ids) == IF ids = <<>> THEN <<>> ELSE InsertSorted(ids[1], SortIDs(Tail(ids)))

RECURSIVE AppendDistinct(_, _, _)
\* the loop of RemoveDuplicateIDs from position j (from 1) on
AppendDistinct(ids, j, result) ==
    IF j > Len(ids) THEN result
    ELSE AppendDistinct(ids, j + 1,
                        IF ids[j] # ids[j - 1] THEN Append(result, ids[j]) ELSE result)

RemoveDuplicateIDs_Unsorted(ids) ==
    IF Len(ids) = 0 THEN ids ELSE AppendDistinct(ids, 2, <<ids[1]>>)

\* RemoveDuplicateIDs(ids), selector.go 154-176
RemoveDuplicateIDs(ids) ==
    IF Len(ids) = 0 THEN ids
    ELSE LET sorted == SortIDs(ids) IN AppendDistinct(sorted, 2, <<sorted[1]>>)

\* CreateBatchSelector(ids, maxID), selector.go 179-192
CreateBatchSelector(ids, maxID, engineOk) ==
    IF Len(ids) = 0 THEN NoSelectorBuilt(<<"empty IDs slice">>)
    ELSE LET cleanIDs == RemoveDuplicateIDs(ids)
             verr == ValidateIDs(cleanIDs, maxID)
         IN IF verr # Nil THEN NoSelectorBuilt(wrapError(verr, "ID validation"))
            ELSE NewIDSelectorBatch(cleanIDs, engineOk)

\* the error of a composite constructor that found nothing wrong with its operands
NotImplemented(name) ==
    <<"IDSelector" \o name \o " not implemented - requires additional C bindings">>

\* the checks NewIDSelectorAnd and NewIDSelectorOr make on their operands
OperandsError(selectors) ==
    LET j == FirstIndex([h \in 1..Len(selectors) |-> SelectorIsNil(selectors[h])])
    IN IF Len(selectors) = 0 THEN <<"at least one selector required">>
       ELSE IF j # 0 THEN <<"selector at index " \o ToString(j - 1) \o " is nil">>
       ELSE Nil

NewIDSelectorAnd_ReturnsFirst(selectors) ==
    LET e == OperandsError(selectors)
    IN IF e # Nil
       THEN [sel |-> NilSelector, err |-> e, engine |-> 0, selectors |-> selectors]
       ELSE [sel |-> selectors[1], err |-> Nil, engine |-> 0, selectors |-> selectors]

\* NewIDSelectorAnd(selectors...), selector.go 70-84; selectors: the operands afterwards
NewIDSelectorAnd(selectors) ==
    LET e == OperandsError(selectors)
    IN [sel |-> NilSelector, err |-> IF e # Nil THEN e ELSE NotImplemented("And"),
        engine |-> 0, selectors |-> selectors]

\* NewIDSelectorOr(selectors...), selector.go 88-102
NewIDSelectorOr(selectors) ==
    LET e == OperandsError(selectors)
    IN [sel |-> NilSelector, err |-> IF e # Nil THEN e ELSE NotImplemented("Or"),
        engine |-> 0, selectors |-> selectors]

\* NewIDSelectorNot(selector, ntotal), selector.go 106-118
NewIDSelectorNot(sel, ntotal) ==
    [sel |-> NilSelector,
     err |-> IF SelectorIsNil(sel) THEN <<"selector is nil">>
             ELSE IF ntotal <= 0 THEN <<"ntotal must be positive">>
             ELSE NotImplemented("Not"),
     engine |-> 0, selectors |-> <<sel>>]

\* the ID lists a caller builds an explicit set from
IDLists == UNION {[1..m -> -1..MaxBatchID] : m \in 0..MaxBatchLen}

\* the max-ID bounds a caller passes: none (-1), or a bound
MaxIDs == {-1, 0, 2, MaxBatchID + 1}

\* the selectors a caller passes to a composite constructor: nil or deleted, a
\* range, an explicit set
OperandSelectors == {NilSelector, RangeSelector(0, 2), BatchSelector(<<1, 3>>)}

\* a trained index of dimension 1 that holds the IDs 0..n-1
SequentialIndex(n) ==
    [NewIndex(1, MetricL2, TRUE) EXCEPT !.ids = [j \in 1..n |-> j - 1] \o <<>>,
                                        !.xb = [j \in 1..n |-> 0] \o <<>>]

SelIndexes == {SequentialIndex(n) : n \in {0, MaxBatchID, IndexSize}}

InitS ==
    /\ idx \in SelIndexes
    /\ idx0 = idx
    /\ bpc = "idle"
    /\ vectors = <<>>
    /\ queries = <<>>
    /\ k = 0
    /\ batchSize = 0
    /\ i = 0
    /\ distances = <<>>
    /\ labels = <<>>
    /\ err = Nil
    /\ addLog = <<>>
    /\ searchLog = <<>>
    /\ NoPersistentIndex
    /\ cdb = "idle"
    /\ resultMatrix = <<>>
    /\ NoSelector
    /\ NoManager
    /\ NoOthers

\* a constructor called with the arguments c has returned r
Built(c, r) ==
    /\ spc = "idle"
    /\ spc' = "built"
    /\ sop' = c
    /\ selector' = r.sel
    /\ err' = r.err
    /\ engineCalls' = r.engine
    /\ nRemoved' = 0
    /\ UNCHANGED <<idx, bpc, vectors, queries, k, batchSize, i, distances, labels, idx0,
                   addLog, searchLog, pvars, xvars, cvars, mvars, zvars>>

BuildRange ==
    /\ spc = "idle"
    /\ \E imin \in -1..MaxSelID, imax \in -1..MaxSelID, engineOk \in BOOLEAN :
          /\ Built([NoConstructor EXCEPT !.op = "NewIDSelectorRange", !.imin = imin,
                                         !.imax = imax, !.engineOk = engineOk],
                   NewIDSelectorRange(imin, imax, engineOk))
          /\ operands' = <<>>

BuildBatch ==
    /\ spc = "idle"
    /\ \E ids \in IDLists, maxID \in MaxIDs, engineOk \in BOOLEAN :
          /\ Built([NoConstructor EXCEPT !.op = "CreateBatchSelector", !.ids = ids,
                                         !.maxID = maxID, !.engineOk = engineOk],
                   CreateBatchSelector(ids, maxID, engineOk))
          /\ operands' = <<>>

\* the operand lists of NewIDSelectorAnd and NewIDSelectorOr
OperandLists == UNION {[1..m -> OperandSelectors] : m \in 0..2}

BuildAnd ==
    /\ spc = "idle"
    /\ \E selectors \in OperandLists : \E r \in {NewIDSelectorAnd(selectors)} :
          /\ Built([NoConstructor EXCEPT !.op = "NewIDSelectorAnd",
                                         !.selectors = selectors], r)
          /\ operands' = r.selectors

BuildOr ==
    /\ spc = "idle"
    /\ \E selectors \in OperandLists : \E r \in {NewIDSelectorOr(selectors)} :
          /\ Built([NoConstructor EXCEPT !.op = "NewIDSelectorOr",
                                         !.selectors = selectors], r)
          /\ operands' = r.selectors

BuildNot ==
    /\ spc = "idle"
    /\ \E s \in OperandSelectors, ntotal \in {-1, 0, 1, IndexSize} :
          \E r \in {NewIDSelectorNot(s, ntotal)} :
              /\ Built([NoConstructor EXCEPT !.op = "NewIDSelectorNot",
                                             !.selectors = <<s>>, !.ntotal = ntotal], r)
              /\ operands' = r.selectors

\* faissIndex.RemoveIDs with what the constructor returned
ApplySelector(engineOk) ==
    /\ spc = "built"
    /\ spc' = "removed"
    /\ \E r \in {RemoveIDs(idx, selector, engineOk)} :
          /\ idx' = r.idx
          /\ nRemoved' = r.n
          /\ err' = r.err
    /\ UNCHANGED <<bpc, vectors, queries, k, batchSize, i, distances, labels, idx0,
                   addLog, searchLog, pvars, xvars, cvars, mvars, zvars,
                   sop, selector, operands, engineCalls>>

NextS ==
    \/ BuildRange
    \/ BuildBatch
    \/ BuildAnd
    \/ BuildOr
    \/ BuildNot
    \/ \E engineOk \in BOOLEAN : ApplySelector(engineOk)

SpecS == InitS /\ [][NextS]_vars

(***************************************************************************)
(* The life of a handle, index.go 80-86 and 362-368.  The owner of a       *)
(* handle calls its methods one after the other, Delete among them, as      *)
(* often as it likes; once the owner has dropped a handle that still has   *)
(* its finalizer, the garbage collector runs the finalizer, which is        *)
(* Delete.                                                                 *)
(***************************************************************************)
Delete_FreesAlways(ix, n) == [idx |-> NilIndex, frees |-> n + 1, finalizer |-> FALSE]

\* faissIndex.Delete on a handle with engine index ix for which n calls of
\* faiss_Index_free have been made: the handle afterwards
Delete(ix, n) ==
    IF ~IsNil(ix)
    THEN [idx |-> NilIndex, frees |-> n + 1, finalizer |-> FALSE]
    ELSE [idx |-> ix, frees |-> n, finalizer |-> FALSE]

\* the indexes a handle is made for
HandleIndexes ==
    {ix \in StartIndexes : D(ix) = 1 /\ MetricType(ix) = MetricL2 /\ Ntotal(ix) <= 1}

\* the buffers the owner of a handle for an index of dimension d passes
HandleVectors(d) == {<<>>, [c \in 1..d |-> 1], [c \in 1..(2 * d) |-> 0]}

\* the calls the owner makes on a handle for an index of dimension d
HandleCalls(d) ==
    {[op |-> "Reset"], [op |-> "RemoveIDs", sel |-> RangeSelector(0, 1)],
     [op |-> "RemoveIDs", sel |-> NilSelector]}
    \cup {[op |-> "Train", x |-> x] : x \in HandleVectors(d)}
    \cup {[op |-> "Add", x |-> x] : x \in HandleVectors(d)}
    \cup {[op |-> "AddWithIDs", x |-> x, xids |-> <<0>>] : x \in HandleVectors(d)}
    \cup {[op |-> "Search", x |-> x, k |-> kk] : x \in HandleVectors(d), kk \in {0, 1}}

\* the outcome of the call: the index afterwards, the error and whether the
\* engine was called
HandleResult(c, ix, engineOk) ==
    IF c.op = "Reset" THEN Reset(ix, engineOk)
    ELSE IF c.op = "Train" THEN Train(ix, c.x, engineOk)
    ELSE IF c.op = "Add" THEN Add(ix, c.x, engineOk)
    ELSE IF c.op = "AddWithIDs" THEN AddWithIDs(ix, c.x, c.xids, engineOk)
    ELSE IF c.op = "RemoveIDs"
    THEN LET r == RemoveIDs(ix, c.sel, engineOk)
         IN [idx |-> r.idx, err |-> r.err, engine |-> r.engine]
    ELSE LET r == Search(ix, c.x, c.k, engineOk)
         IN [idx |-> ix, err |-> r.err, engine |-> r.engine]

InitD ==
    /\ idx \in HandleIndexes
    /\ bpc = "idle"
    /\ vectors = <<>>
    /\ queries = <<>>
    /\ k = 0
    /\ batchSize = 0
    /\ i = 0
    /\ distances = <<>>
    /\ labels = <<>>
    /\ err = Nil
    /\ idx0 = idx
    /\ addLog = <<>>
    /\ searchLog = <<>>
    /\ NoPersistentIndex
    /\ cdb = "idle"
    /\ resultMatrix = <<>>
    /\ NoSelector
    /\ NoManager
    /\ NoIndexIO
    /\ NoEmbedded
    /\ NoBuilder
    /\ frees = 0
    /\ finalizer = TRUE
    /\ dop = [op |-> "new", engine |-> TRUE]

\* the owner still holds the handle and is in no call
OwnerIdle == bpc = "idle" /\ dop.op # "finalizer"

\* Train, Add, AddWithIDs, Search, Reset or RemoveIDs on the handle
HandleCall(c, engineOk) ==
    /\ OwnerIdle
    /\ \E r \in {HandleResult(c, idx, engineOk)} :
          /\ Ntotal(r.idx) <= MaxTotal
          /\ idx' = r.idx
          /\ err' = r.err
          /\ dop' = [op |-> c.op, engine |-> r.engine]
    /\ UNCHANGED <<bpc, vectors, queries, k, batchSize, i, distances, labels, idx0,
                   addLog, searchLog, pvars, xvars, cvars, svars, mvars, fvars, evars,
                   bbvars, frees, finalizer>>

\* what Delete leaves alone
HandleFrame ==
    UNCHANGED <<bpc, vectors, queries, k, batchSize, i, distances, labels, err, idx0,
                addLog, searchLog, pvars, xvars, cvars, svars, mvars, fvars, evars,
                bbvars>>

\* the owner calls Delete()
DeleteCall ==
    /\ OwnerIdle
    /\ \E r \in {Delete(idx, frees)} :
          /\ idx' = r.idx
          /\ frees' = r.frees
          /\ finalizer' = r.finalizer
    /\ dop' = [op |-> "Delete", engine |-> frees' # frees]
    /\ HandleFrame

\* the owner has dropped the handle and the garbage collector runs the
\* finalizer that NewFaissIndex set, once
Finalize ==
    /\ OwnerIdle
    /\ finalizer
    /\ \E r \in {Delete(idx, frees)} :
          /\ idx' = r.idx
          /\ frees' = r.frees
          /\ finalizer' = r.finalizer
    /\ dop' = [op |-> "finalizer", engine |-> frees' # frees]
    /\ HandleFrame

\* AddBatch on the handle
HandleAddBatch(v, bs) ==
    /\ OwnerIdle
    /\ Ntotal(idx) + Len(v) <= MaxTotal
    /\ AddBatchCall(v, bs)

\* SearchBatch on the handle
HandleSearchBatch(q, kk, bs) ==
    /\ OwnerIdle
    /\ SearchBatchCall(q, kk, bs)
    /\ UNCHANGED cvars

\* the batch call has returned and the owner goes on
HandleReturn ==
    /\ bpc = "done"
    /\ bpc' = "idle"
    /\ vectors' = <<>>
    /\ queries' = <<>>
    /\ k' = 0
    /\ batchSize' = 0
    /\ i' = 0
    /\ distances' = <<>>
    /\ labels' = <<>>
    /\ addLog' = <<>>
    /\ searchLog' = <<>>
    /\ UNCHANGED <<idx, err, idx0, pvars, xvars, cvars, ovars>>

NextD ==
    \/ \E c \in HandleCalls(D(idx0)), engineOk \in BOOLEAN : HandleCall(c, engineOk)
    \/ DeleteCall
    \/ Finalize
    \/ \E v \in HandleVectors(D(idx0)), bs \in {0, 1} : HandleAddBatch(v, bs)
    \/ \E ok \in BOOLEAN : AddBatchChunk(ok)
    \/ \E q \in HandleVectors(D(idx0)), kk \in {0, 1}, bs \in {0, 1} :
          HandleSearchBatch(q, kk, bs)
    \/ \E ok \in BOOLEAN : SearchBatchChunk(ok)
    \/ HandleReturn

SpecD == InitD /\ [][NextD]_vars

(***************************************************************************)
(* BatchSelectorBuilder, selector.go 216-287.  A builder is its fields ids *)
(* and maxID (the field sorted is written and never read).                 *)
(***************************************************************************)
\* NewBatchSelectorBuilder()
NewBatchSelectorBuilder == [ids |-> <<>>, maxID |-> -1]

SetMaxID(bld, maxID) == [bld EXCEPT !.maxID = maxID]

AddID(bld, id) == [bld EXCEPT !.ids = Append(@, id)]

AddIDs(bld, ids) == [bld EXCEPT !.ids = @ \o ids]

RECURSIVE AddRangeFrom_Inclusive(_, _, _)
AddRangeFrom_Inclusive(ids, ii, end) ==
    IF ii <= end THEN AddRangeFrom_Inclusive(Append(ids, ii), ii + 1, end) ELSE ids

RECURSIVE AddRangeFrom(_, _, _)
\* for i := start; i < end; i++ { b.ids = append(b.ids, i) } from i = ii on
AddRangeFrom(ids, ii, end) ==
    IF ii < end THEN AddRangeFrom(Append(ids, ii), ii + 1, end) ELSE ids

AddRange(bld, start, end) == [bld EXCEPT !.ids = AddRangeFrom(@, start, end)]

Clear(bld) == [bld EXCEPT !.ids = <<>>]

Count(bld) == Len(bld.ids)

GetIDs(bld) == bld.ids

\* what the slice a caller passed to RemoveDuplicateIDs holds afterwards: the
\* function sorts it where it is (sort.Slice, selector.go 160-163) and builds
\* its result in a slice of its own
AfterRemoveDuplicateIDs(ids) == IF Len(ids) = 0 THEN ids ELSE SortIDs(ids)

\* b.Build(): the selector, the error and the calls of the engine
BuildResult(bld, engineOk) ==
    IF Len(bld.ids) = 0 THEN NoSelectorBuilt(<<"no IDs added to selector">>)
    ELSE CreateBatchSelector(bld.ids, bld.maxID, engineOk)

\* the builder after b.Build(): CreateBatchSelector has passed b.ids itself to
\* RemoveDuplicateIDs
AfterBuild(bld) ==
    IF Len(bld.ids) = 0 THEN bld ELSE [bld EXCEPT !.ids = AfterRemoveDuplicateIDs(@)]

NoBuild == [op |-> "none", engineOk |-> TRUE]

InitBB ==
    /\ idx = NilIndex
    /\ idx0 = NilIndex
    /\ bpc = "idle"
    /\ vectors = <<>>
    /\ queries = <<>>
    /\ k = 0
    /\ batchSize = 0
    /\ i = 0
    /\ distances = <<>>
    /\ labels = <<>>
    /\ err = Nil
    /\ addLog = <<>>
    /\ searchLog = <<>>
    /\ NoPersistentIndex
    /\ cdb = "idle"
    /\ resultMatrix = <<>>
    /\ NoSelector
    /\ NoManager
    /\ NoIndexIO
    /\ NoEmbedded
    /\ NoHandle
    /\ builder = NewBatchSelectorBuilder
    /\ builder0 = NewBatchSelectorBuilder
    /\ appended = <<>>
    /\ bop = NoBuild

\* what no call on a builder changes
BuilderFrame ==
    UNCHANGED <<idx, bpc, vectors, queries, k, batchSize, i, distances, labels, idx0,
                addLog, searchLog, pvars, xvars, cvars, mvars, fvars, evars, dvars,
                spc, sop, operands, nRemoved>>

\* a call that returns the builder: nb is the builder afterwards and ids are
\* the IDs the caller has asked to add
Accumulate(name, nb, ids) ==
    /\ Len(nb.ids) <= MaxBatchLen
    /\ builder' = nb
    /\ builder0' = builder
    /\ appended' = IF name = "Clear" THEN <<>> ELSE appended \o ids
    /\ bop' = [op |-> name, engineOk |-> TRUE]
    /\ selector' = NilSelector
    /\ err' = Nil
    /\ engineCalls' = 0
    /\ BuilderFrame

CallSetMaxID == \E maxID \in MaxIDs : Accumulate("SetMaxID", SetMaxID(builder, maxID), <<>>)

CallAddID == \E id \in -1..MaxBatchID : Accumulate("AddID", AddID(builder, id), <<id>>)

CallAddIDs ==
    \E ids \in UNION {[1..m -> -1..MaxBatchID] : m \in 0..2} :
        Accumulate("AddIDs", AddIDs(builder, ids), ids)

CallAddRange ==
    \E start \in -1..MaxBatchID, end \in -1..(MaxBatchID + 1) :
        Accumulate("AddRange", AddRange(builder, start, end),
                   IF start < end THEN [j \in 1..(end - start) |-> start + j - 1] ELSE <<>>)

CallClear == Accumulate("Clear", Clear(builder), <<>>)

\* b.Build()
CallBuild(engineOk) ==
    /\ \E r \in {BuildResult(builder, engineOk)} :
          /\ selector' = r.sel
          /\ err' = r.err
          /\ engineCalls' = r.engine
    /\ builder' = AfterBuild(builder)
    /\ builder0' = builder
    /\ bop' = [op |-> "Build", engineOk |-> engineOk]
    /\ UNCHANGED appended
    /\ BuilderFrame

NextBB ==
    \/ CallSetMaxID
    \/ CallAddID
    \/ CallAddIDs
    \/ CallAddRange
    \/ CallClear
    \/ \E engineOk \in BOOLEAN : CallBuild(engineOk)

SpecBB == InitBB /\ [][NextBB]_vars

(***************************************************************************)
(* BatchIndexManager, index_io.go 381-488.  A registry name and a file    *)
(* below BasePath are given by their parts: the directory below BasePath  *)
(* ("" for BasePath itself), the base name and, for a file, the extension. *)
(***************************************************************************)
Name(d, b) == [dir |-> d, base |-> b]
FilePath(d, b, e) == [dir |-> d, base |-> b, ext |-> e]

\* the names under which a caller registers indexes
Names == {Name("", "a"), Name("", "b"), Name("sub", "a")}

\* the files the model knows below BasePath, in lexical order
AllPaths ==
    <<FilePath("", "a", ".faiss"), FilePath("", "a.faiss", ".bak"),
      FilePath("", "b", ".faiss"), FilePath("", "notes", ".txt"),
      FilePath("sub", "a", ".faiss")>>

\* the path as a string
PathString(p) ==
    "indexes/" \o (IF p.dir = "" THEN "" ELSE p.dir \o "/") \o p.base \o p.ext

\* filepath.Glob(filepath.Join(m.BasePath, "*.faiss")): the files of BasePath
\* itself whose name ends in .faiss, in lexical order
Glob(d) ==
    SelectSeq(AllPaths, LAMBDA p : p \in DOMAIN d /\ p.dir = "" /\ p.ext = ".faiss")

\* strings.TrimSuffix(filepath.Base(file), ".faiss")
Stem(fname) == Name("", fname.base)

\* m.Indices = make(map[string]*IndexImpl)
EmptyRegistry == [n \in {} |-> NilIndex]

Cleared_Keeps(reg) == reg

\* what LoadAll starts its loop with
Cleared(reg) == EmptyRegistry

RECURSIVE LoadLoop(_, _, _, _, _)
\* the loop of LoadAll from file j (from 1) of files on; the engine fails to
\* read file failAt (0: none, beyond what it cannot read anyway)
LoadLoop(files, j, reg, d, failAt) ==
    IF j > Len(files) THEN [Indices |-> reg, err |-> Nil]
    ELSE LET fname == files[j]
             name == Stem(fname)
             r == ReadIndex(PathString(fname), FileOf(d[fname]), j # failAt)
         IN IF r.err # Nil
            THEN [Indices |-> reg, err |-> wrapError(r.err, "load index " \o name.base)]
            ELSE LoadLoop(files, j + 1, (name :> r.idx) @@ reg, d, failAt)

\* the contents a file of the directory can have: an index, or no index
GoodBytes1 == Serialize(NewIndex(1, MetricL2, TRUE))
GoodBytes2 == Serialize(EngineAdd(NewIndex(2, MetricInnerProduct, TRUE), 1, <<1, 0>>))
NoIndexBytes == <<>>

\* what a file can hold when the program starts
StartContents(p) ==
    IF p = FilePath("", "a", ".faiss") THEN {GoodBytes1, NoIndexBytes}
    ELSE IF p = FilePath("", "notes", ".txt") THEN {NoIndexBytes}
    ELSE IF p = FilePath("", "a.faiss", ".bak") THEN {GoodBytes1}
    ELSE {GoodBytes2}

\* the directories the program can find
StartDirs ==
    UNION {{d \in [S -> UNION {StartContents(p) : p \in S}] :
              \A p \in S : d[p] \in StartContents(p)} :
           S \in SUBSET Range(AllPaths)}

\* the indexes a caller registers
RegisteredIndexes == {Deserialize(GoodBytes1), Deserialize(GoodBytes2)}

InitM ==
    /\ idx = NilIndex
    /\ idx0 = NilIndex
    /\ bpc = "idle"
    /\ vectors = <<>>
    /\ queries = <<>>
    /\ k = 0
    /\ batchSize = 0
    /\ i = 0
    /\ distances = <<>>
    /\ labels = <<>>
    /\ err = Nil
    /\ addLog = <<>>
    /\ searchLog = <<>>
    /\ NoPersistentIndex
    /\ cdb = "idle"
    /\ resultMatrix = <<>>
    /\ NoSelector
    /\ Indices = EmptyRegistry
    /\ dir \in StartDirs
    /\ mop = "none"
    /\ namesBefore = {}
    /\ NoOthers

\* m.AddIndex(name, ix)
AddIndex(name, ix) ==
    /\ Indices' = (name :> ix) @@ Indices
    /\ mop' = "AddIndex"
    /\ err' = Nil
    /\ namesBefore' = {}
    /\ UNCHANGED <<idx, bpc, vectors, queries, k, batchSize, i, distances, labels, idx0,
                   addLog, searchLog, pvars, xvars, cvars, svars, zvars, dir>>

\* m.LoadAll()
LoadAll(failAt) ==
    /\ failAt \in 0..Len(Glob(dir))
    /\ \E r \in {LoadLoop(Glob(dir), 1, Cleared(Indices), dir, failAt)} :
          /\ Indices' = r.Indices
          /\ err' = r.err
    /\ mop' = "LoadAll"
    /\ namesBefore' = DOMAIN Indices
    /\ UNCHANGED <<idx, bpc, vectors, queries, k, batchSize, i, distances, labels, idx0,
                   addLog, searchLog, pvars, xvars, cvars, svars, zvars, dir>>

\* filepath.Join(m.BasePath, name+".faiss")
IndexFileOf(name) == FilePath(name.dir, name.base, ".faiss")

\* the name as the caller wrote it
NameString(name) == (IF name.dir = "" THEN "" ELSE name.dir \o "/") \o name.base

\* the orders in which `for name, idx := range m.Indices` can take the names
Orders(S) == {o \in [1..Cardinality(S) -> S] : \A a, b \in DOMAIN o : o[a] = o[b] => a = b}

\* how the write of an entry can go wrong: MkdirAll fails, or the engine
\* fails before it touches the file or after it has put all but the last word
\* into it
SaveFailures == {"mkdir", "engine before", "engine part-way"}

\* what can go wrong in a SaveAll that takes the names in this order: nothing,
\* or the write of one of the entries
SaveOutcomes(order) ==
    {[at |-> 0, kind |-> "ok"]}
    \cup {[at |-> j, kind |-> kd] : j \in 1..Len(order), kd \in SaveFailures}

\* the outcome of WriteIndex that a kind of failure stands for
OutcomeOf(kind, ix) ==
    IF kind = "ok" THEN [kind |-> "ok", m |-> 0]
    ELSE IF kind = "mkdir" THEN [kind |-> "mkdir", m |-> 0]
    ELSE IF kind = "engine before" THEN [kind |-> "engine", m |-> -1]
    ELSE [kind |-> "engine", m |-> Len(Serialize(ix)) - 1]

RECURSIVE SaveLoop(_, _, _, _, _, _)
\* the loop of SaveAll from entry j (from 1) of order on: the Serializer of a
\* manager makes no backup, so its WriteIndex is WriteIndex
SaveLoop(order, j, reg, d, failAt, kind) ==
    IF j > Len(order) THEN [dir |-> d, err |-> Nil]
    ELSE LET name == order[j]
             filename == IndexFileOf(name)
             f == IF filename \in DOMAIN d THEN FileOf(d[filename]) ELSE NoFile
             w == WriteIndex(reg[name], PathString(filename), f,
                             OutcomeOf(IF j = failAt THEN kind ELSE "ok", reg[name]))
             d2 == IF w.file.exists
                   THEN [q \in DOMAIN d \cup {filename} |->
                            IF q = filename THEN w.file.bytes ELSE d[q]]
                   ELSE d
         IN IF w.err # Nil
            THEN [dir |-> d2, err |-> wrapError(w.err, "save index " \o NameString(name))]
            ELSE SaveLoop(order, j + 1, reg, d2, failAt, kind)

\* m.SaveAll()
SaveAll(order, failAt, kind) ==
    /\ order \in Orders(DOMAIN Indices)
    /\ [at |-> failAt, kind |-> kind] \in SaveOutcomes(order)
    /\ \E r \in {SaveLoop(order, 1, Indices, dir, failAt, kind)} :
          /\ dir' = r.dir
          /\ err' = r.err
    /\ mop' = "SaveAll"
    /\ UNCHANGED <<idx, bpc, vectors, queries, k, batchSize, i, distances, labels, idx0,
                   addLog, searchLog, pvars, xvars, cvars, svars, zvars,
                   Indices, namesBefore>>

NextM ==
    \/ \E name \in Names, ix \in RegisteredIndexes : AddIndex(name, ix)
    \/ \E failAt \in 0..Len(AllPaths) : LoadAll(failAt)

SpecM == InitM /\ [][NextM]_vars

\* the directories in which a program that saves its registry starts: empty,
\* or holding a backup file, an index file or a file that is no index
SaveStartDirs ==
    {d \in StartDirs : Cardinality(DOMAIN d) <= 1 /\ FilePath("", "notes", ".txt") \notin DOMAIN d}

InitV == InitM /\ dir \in SaveStartDirs

\* the manager with SaveAll
NextV ==
    \/ \E name \in Names, ix \in RegisteredIndexes : AddIndex(name, ix)
    \/ \E failAt \in 0..Len(AllPaths) : LoadAll(failAt)
    \/ \E order \in Orders(DOMAIN Indices) : \E out \in SaveOutcomes(order) :
          SaveAll(order, out.at, out.kind)

SpecV == InitV /\ [][NextV]_vars

(***************************************************************************)
(* Index files as the operations of index_io.go find them: ReadIndex,      *)
(* BackupIndex, RestoreIndex, copyFile and IndexSerializer.WriteIndex.     *)
(* The file system is a function from the paths of the model to files; a   *)
(* failure of the operating system or of the engine is an input of the     *)
(* operation.                                                              *)
(***************************************************************************)
\* the paths at which the model keeps files
FsPaths == {"a.faiss", "a.faiss.bak"}

\* the paths a caller passes
ArgPaths == FsPaths \cup {"", "index?.faiss"}

\* the file at path p of file system f
FileAt(f, p) == IF p \in DOMAIN f THEN f[p] ELSE NoFile

\* the contents a file can have when the program starts: empty, shorter than
\* the transfer buffer, as long as it, a multiple of it (an index without
\* vectors), longer than it by a part (an index cut short) and an index with
\* a vector
StartBytes ==
    {<<>>, <<1>>, <<1, 0>>,
     Serialize(NewIndex(1, MetricL2, TRUE)),
     SubSeq(Serialize(EngineAdd(NewIndex(1, MetricL2, TRUE), 1, <<1>>)), 1, 5),
     Serialize(EngineAdd(NewIndex(1, MetricL2, TRUE), 1, <<1>>))}

\* the file systems the program can find
StartFs == [FsPaths -> {NoFile} \cup {FileOf(b) : b \in StartBytes}]

\* What can happen in the operating system during a copy: nothing ("ok"), or
\* MkdirAll, os.Open, os.Create, the Read or the Write of chunk out.at, or
\* Sync fails.
CopyOutcomes ==
    {[kind |-> kd, at |-> 0] : kd \in {"ok", "mkdir", "open", "create", "sync"}}
    \cup {[kind |-> kd, at |-> n] : kd \in {"read", "write"}, n \in 1..2}

RECURSIVE CopyLoop_FullChunksOnly(_, _, _, _, _, _)
CopyLoop_FullChunksOnly(f, src, dst, off, reads, out) ==
    LET avail == Len(f[src].bytes) - off
        n == IF avail < BufferSize THEN 0 ELSE BufferSize
    IN IF out.kind = "read" /\ out.at = reads + 1
       THEN [fs |-> f, err |-> <<"read failed">>, reads |-> reads + 1]
       ELSE IF n = 0
       THEN [fs |-> f, err |-> IF out.kind = "sync" THEN <<"sync failed">> ELSE Nil,
             reads |-> reads + 1]
       ELSE IF out.kind = "write" /\ out.at = reads + 1
       THEN [fs |-> f, err |-> <<"write failed">>, reads |-> reads + 1]
       ELSE CopyLoop_FullChunksOnly([f EXCEPT ![dst] =
                         FileOf(@.bytes \o SubSeq(f[src].bytes, off + 1, off + n))],
                     src, dst, off + n, reads + 1, out)

RECURSIVE CopyLoop(_, _, _, _, _, _)
\* The loop of copyFile after `reads` calls of sourceFile.Read that have moved
\* off bytes: the file system at the end, the error and the calls of Read.
CopyLoop(f, src, dst, off, reads, out) ==
    LET avail == Len(f[src].bytes) - off
        n == IF avail < BufferSize THEN avail ELSE BufferSize
    IN IF out.kind = "read" /\ out.at = reads + 1
       THEN [fs |-> f, err |-> <<"read failed">>, reads |-> reads + 1]
       ELSE IF n = 0
       THEN [fs |-> f, err |-> IF out.kind = "sync" THEN <<"sync failed">> ELSE Nil,
             reads |-> reads + 1]
       ELSE IF out.kind = "write" /\ out.at = reads + 1
       THEN [fs |-> f, err |-> <<"write failed">>, reads |-> reads + 1]
       ELSE CopyLoop([f EXCEPT ![dst] =
                         FileOf(@.bytes \o SubSeq(f[src].bytes, off + 1, off + n))],
                     src, dst, off + n, reads + 1, out)

\* copyFile(src, dst): os.Open(src), os.Create(dst), which empties the file at
\* dst, then the loop
copyFile(f, src, dst, out) ==
    IF ~FileAt(f, src).exists \/ out.kind = "open"
    THEN [fs |-> f, err |-> <<"open failed">>, reads |-> 0]
    ELSE IF out.kind = "create"
    THEN [fs |-> f, err |-> <<"create failed">>, reads |-> 0]
    ELSE CopyLoop([f EXCEPT ![dst] = FileOf(<<>>)], src, dst, 0, 0, out)

\* the checks and the copy that BackupIndex and RestoreIndex share, with the
\* two context strings in which they differ
CheckedCopy(f, src, dst, out, validateContext, mkdirContext) ==
    IF src = "" \/ dst = ""
    THEN [fs |-> f, err |-> <<"paths cannot be empty">>, reads |-> 0]
    ELSE LET verr == ValidateFilePath(src, TRUE, FileAt(f, src))
         IN IF verr # Nil
            THEN [fs |-> f, err |-> wrapError(verr, validateContext), reads |-> 0]
            ELSE IF out.kind = "mkdir"
            THEN [fs |-> f, err |-> wrapError(<<"mkdir failed">>, mkdirContext),
                  reads |-> 0]
            ELSE LET r == copyFile(f, src, dst, out)
                 IN IF r.err # Nil
                    THEN [r EXCEPT !.err = wrapError(r.err, "copy file")]
                    ELSE r

\* BackupIndex(originalPath, backupPath)
BackupIndex(f, originalPath, backupPath, out) ==
    CheckedCopy(f, originalPath, backupPath, out,
                "validate original file", "create backup directory")

\* RestoreIndex(backupPath, targetPath)
RestoreIndex(f, backupPath, targetPath, out) ==
    CheckedCopy(f, backupPath, targetPath, out,
                "validate backup file", "create target directory")

\* ReadIndex(fname, ioflags) of unnamed/part_005: the same order of steps with
\* os.Stat in the place of ValidateFilePath
ReadIndex_part_005(fname, f, engineOk) ==
    IF fname = "" THEN [idx |-> NilIndex, err |-> <<"filename is empty">>, engine |-> FALSE]
    ELSE IF ~f.exists
    THEN [idx |-> NilIndex, err |-> <<"index file does not exist">>, engine |-> FALSE]
    ELSE IF engineOk /\ Readable(f.bytes)
    THEN [idx |-> Deserialize(f.bytes), err |-> Nil, engine |-> TRUE]
    ELSE [idx |-> NilIndex, err |-> wrapError(getLastError, "read index operation"),
          engine |-> TRUE]

\* s.WriteIndex(ix, filename) of an IndexSerializer with the given UseBackup
\* and BackupSuffix: the backup when the file exists, then WriteIndex
SerializerWriteIndex(f, ix, filename, useBackup, suffix, out, wout) ==
    LET b == IF useBackup /\ FileAt(f, filename).exists
             THEN BackupIndex(f, filename, filename \o suffix, out)
             ELSE [fs |-> f, err |-> Nil, reads |-> 0]
    IN IF b.err # Nil
       THEN [b EXCEPT !.err = wrapError(b.err, "create backup")]
       ELSE LET w == WriteIndex(ix, filename, FileAt(b.fs, filename), wout)
            IN [fs |-> [b.fs EXCEPT ![filename] = w.file], err |-> w.err,
                reads |-> b.reads]

NoFileOp == [op |-> "none", src |-> "", dst |-> ""]

InitF ==
    /\ idx = NilIndex
    /\ idx0 = NilIndex
    /\ bpc = "idle"
    /\ vectors = <<>>
    /\ queries = <<>>
    /\ k = 0
    /\ batchSize = 0
    /\ i = 0
    /\ distances = <<>>
    /\ labels = <<>>
    /\ err = Nil
    /\ addLog = <<>>
    /\ searchLog = <<>>
    /\ NoPersistentIndex
    /\ cdb = "idle"
    /\ resultMatrix = <<>>
    /\ NoSelector
    /\ NoManager
    /\ NoEmbedded
    /\ NoBuilder
    /\ NoHandle
    /\ fs \in StartFs
    /\ fs0 = fs
    /\ fop = NoFileOp
    /\ engineReads = 0
    /\ nReads = 0

\* what no operation of this part changes
FileFrame ==
    UNCHANGED <<bpc, vectors, queries, k, batchSize, i, distances, labels, idx0,
                addLog, searchLog, pvars, xvars, cvars, svars, mvars, evars, bbvars,
                dvars>>

\* a call of ReadIndex(filename, 0), in either version of it
ReadIndexCall(filename, engineOk, version) ==
    /\ \E r \in {IF version = 1
                 THEN ReadIndex(filename, FileAt(fs, filename), engineOk)
                 ELSE ReadIndex_part_005(filename, FileAt(fs, filename), engineOk)} :
          /\ idx' = r.idx
          /\ err' = r.err
          /\ engineReads' = IF r.engine THEN 1 ELSE 0
    /\ fop' = [op |-> "ReadIndex", src |-> filename, dst |-> ""]
    /\ fs0' = fs
    /\ nReads' = 0
    /\ UNCHANGED fs
    /\ FileFrame

\* the effect of a copying call with outcome r
Copied(name, src, dst, r) ==
    /\ fs' = r.fs
    /\ err' = r.err
    /\ nReads' = r.reads
    /\ fs0' = fs
    /\ fop' = [op |-> name, src |-> src, dst |-> dst]
    /\ idx' = NilIndex
    /\ engineReads' = 0
    /\ FileFrame

\* a call of BackupIndex(originalPath, backupPath)
BackupIndexCall(originalPath, backupPath, out) ==
    Copied("BackupIndex", originalPath, backupPath,
           BackupIndex(fs, originalPath, backupPath, out))

\* a call of RestoreIndex(backupPath, targetPath)
RestoreIndexCall(backupPath, targetPath, out) ==
    Copied("RestoreIndex", backupPath, targetPath,
           RestoreIndex(fs, backupPath, targetPath, out))

\* a call of s.WriteIndex(ix, "a.faiss") with UseBackup on
SerializerWriteIndexCall(ix, suffix, out, wout) ==
    Copied("IndexSerializer.WriteIndex", "a.faiss", "a.faiss" \o suffix,
           SerializerWriteIndex(fs, ix, "a.faiss", TRUE, suffix, out, wout))

\* the indexes a caller writes with an IndexSerializer
SerializerIndexes == {NewIndex(2, MetricInnerProduct, TRUE)}

\* what can happen during the backup of an IndexSerializer
SerializerOutcomes == {out \in CopyOutcomes : out.kind \in {"ok", "create"}}

NextF ==
    \/ \E filename \in ArgPaths, engineOk \in BOOLEAN, version \in 1..2 :
          ReadIndexCall(filename, engineOk, version)
    \/ \E src \in ArgPaths, dst \in FsPaths \cup {""}, out \in CopyOutcomes :
          BackupIndexCall(src, dst, out)
    \/ \E src \in ArgPaths, dst \in FsPaths \cup {""}, out \in CopyOutcomes :
          RestoreIndexCall(src, dst, out)
    \/ \E ix \in SerializerIndexes, suffix \in {".bak", ""}, out \in SerializerOutcomes :
          \E wout \in WriteOutcomes(ix) : SerializerWriteIndexCall(ix, suffix, out, wout)

SpecF == InitF /\ [][NextF]_vars

(***************************************************************************)
(* PersistentIndex claims, checked under SpecP (C9 under LiveSpecP).     *)
(***************************************************************************)
\* the file at path holds exactly the index ix
FileHolds(f, ix) == f.exists /\ Readable(f.bytes) /\ Deserialize(f.bytes) = ix

\* goroutine p is at the return of a call; nothing but the release of the lock
\* is left to do
AtReturn(p) == pc[p] = "Unlock"

\* C4: when a mutating call returns without error, the file at path holds, at
\* that moment (the release of the lock), exactly the in-memory index, under
\* every interleaving of the calls of the goroutines.
C4_FileIsMemoryOnReturn ==
    [][\A p \in Procs :
          (AtReturn(p) /\ pc'[p] = "idle" /\ call[p].err = Nil) => FileHolds(file', idx')]_vars

\* a call that changed the count returns without error while another goroutine waits
C4_Witness ==
    \E p, q \in Procs :
        /\ AtReturn(p)
        /\ call[p].err = Nil
        /\ Ntotal(idx) # Ntotal(call[p].idx0)
        /\ pc[q] = "Lock"
        /\ ~FileHolds(call[p].file0, idx)

\* the in-memory step of p's call succeeded and its WriteIndex failed
Diverged(p) == AtReturn(p) /\ call[p].mem = "ok" /\ call[p].err # Nil

\* C5 as claimed: after a failed WriteIndex the call returns an error, the
\* index holds the mutation and the file is the file from before the call.
C5_FileAsBeforeTheCall ==
    \A p \in Procs :
        Diverged(p) =>
            /\ idx = MutateResult(call[p], call[p].idx0, TRUE).idx
            /\ file = call[p].file0

\* C5 as amended: after a failed WriteIndex the call returns an error, the
\* index holds the mutation (Ntotal shows it), and the file has not received
\* the new state: it is the file from before the call or, when the engine's
\* write failed part-way, an incomplete file that cannot be read back.
C5_FileStaleOrIncomplete ==
    \A p \in Procs :
        Diverged(p) =>
            /\ call[p].writes = 1
            /\ idx = MutateResult(call[p], call[p].idx0, TRUE).idx
            /\ call[p].op \in {"Add", "AddWithIDs"} =>
                    Ntotal(idx) = Ntotal(call[p].idx0) + 1
            /\ call[p].op = "RemoveIDs" =>
                    Ntotal(idx) = Ntotal(call[p].idx0) - call[p].n
            /\ \/ file = call[p].file0
               \/ file.exists /\ ~Readable(file.bytes)

\* an AddWithIDs whose WriteIndex failed with the old file in place
C5_Witness ==
    \E p \in Procs :
        /\ Diverged(p)
        /\ call[p].op = "AddWithIDs"
        /\ Ntotal(idx) = 1
        /\ FileHolds(file, call[p].idx0)

\* the exported error values a caller can test an error against (faiss.go 19-26)
ErrInvalidRadius == <<"invalid radius">>

Sentinels ==
    {ErrInvalidDimension, ErrInvalidK, ErrInvalidRadius, ErrEmptyVectors,
     ErrIndexNotTrained, ErrNullPointer}

\* errors.Is(e, target): the chain of e ends in target
Is(e, target) == e # Nil /\ e[Len(e)] = target[1]

\* the error values that the error of a call whose in-memory step failed can match
CleanFailures ==
    {ErrInvalidDimension, ErrEmptyVectors, ErrIndexNotTrained, ErrNullPointer}

\* C6: the error of a call whose in-memory step succeeded and whose WriteIndex
\* failed is flagged as persistence divergence: it matches an error value that
\* the error of no call whose in-memory step failed matches.
C6_DivergenceIsFlagged ==
    \A p \in Procs :
        Diverged(p) => \E s \in Sentinels \ CleanFailures : Is(call[p].err, s)

\* C7: when the in-memory step of a mutating call fails, the call returns an
\* error, WriteIndex was not called, and the index and the file are as they
\* were when the call took the lock.
C7_CleanFailure ==
    \A p \in Procs :
        (AtReturn(p) /\ call[p].mem = "failed") =>
            /\ call[p].err # Nil
            /\ call[p].writes = 0
            /\ idx = call[p].idx0
            /\ file = call[p].file0

\* the engine refused an Add on an index whose file exists
C7_Witness ==
    \E p \in Procs :
        /\ AtReturn(p)
        /\ call[p].mem = "failed"
        /\ call[p].err = <<"add operation", "faiss error">>
        /\ file.exists

\* goroutine p is between the start of its in-memory step and its return
InFlight(p) == pc[p] \in {"Mutate", "Persist", "Unlock"}

\* C8: at most one mutating call is in flight at any time, and it holds the lock.
C8_OneCallInFlight ==
    \A p, q \in Procs : (InFlight(p) /\ InFlight(q)) => (p = q /\ mu = p)

\* one call is persisting while another goroutine waits for the lock
C8_Witness ==
    \E p, q \in Procs : p # q /\ pc[p] = "Persist" /\ pc[q] = "Lock" /\ mu = p

\* C9: every mutating call returns, whatever its outcome, and the lock is free
\* again after every call: a goroutine that waits for the lock gets it.
C9_EveryCallReturns ==
    /\ \A p \in Procs : (pc[p] # "idle") ~> (pc[p] = "idle")
    /\ (mu # 0) ~> (mu = 0)

\* a goroutine waits for the lock while the call that holds it has failed to persist
C9_Witness ==
    \E p, q \in Procs : p # q /\ Diverged(p) /\ pc[q] = "Lock"

\* C10 as claimed: NewPersistentIndex on a missing path calls factory once and
\* neither reads nor creates the file; on an existing path it calls ReadIndex
\* and never factory; the file comes into existence in a mutating call that succeeds.
C10_FileCreatedBySuccess ==
    [][/\ (opened = "no" /\ opened' = "factory") =>
            (~file.exists /\ file' = file /\ factoryCalls' = 1 /\ readCalls' = 0)
       /\ (opened = "no" /\ opened' = "read") =>
            (FileHolds(file, idx') /\ file' = file /\ factoryCalls' = 0 /\ readCalls' = 1)
       /\ (~file.exists /\ file'.exists) =>
            \E p \in Procs : pc[p] = "Persist" /\ call'[p].err = Nil]_vars

\* C10 as amended: the same, except that the file comes into existence in the
\* serialization step of a mutating call, whether that step succeeds (the file
\* then holds the index) or fails part-way (an incomplete file).
C10_FileCreatedByPersist ==
    [][/\ (opened = "no" /\ opened' = "factory") =>
            (~file.exists /\ file' = file /\ factoryCalls' = 1 /\ readCalls' = 0)
       /\ (opened = "no" /\ opened' = "read") =>
            (FileHolds(file, idx') /\ file' = file /\ factoryCalls' = 0 /\ readCalls' = 1)
       /\ (~file.exists /\ file'.exists) =>
            \E p \in Procs :
                /\ pc[p] = "Persist"
                /\ call[p].mem = "ok"
                /\ call'[p].err = Nil => FileHolds(file', idx')]_vars

\* C11: after a mutating call has returned without error and nothing has
\* changed the index since, NewPersistentIndex on the same path yields an index
\* read from the file, with the D, Ntotal and MetricType of the first instance.
C11_ReopenRoundTrip ==
    [][(first # NoFirst /\ opened = "no" /\ opened' # "no") =>
          /\ opened' = "read"
          /\ factoryCalls' = 0
          /\ D(idx') = first.d
          /\ Ntotal(idx') = first.ntotal
          /\ MetricType(idx') = first.metric]_vars

\* an inner-product index with one vector has been opened again from its file
C11_Witness ==
    /\ first # NoFirst
    /\ opened = "read"
    /\ Ntotal(idx) = 1
    /\ MetricType(idx) = MetricInnerProduct
    /\ first.metric = MetricInnerProduct

\* the index came from factory and the first successful call has written the file
C10_Witness ==
    \E p \in Procs :
        /\ opened = "factory"
        /\ AtReturn(p)
        /\ call[p].err = Nil
        /\ ~call[p].file0.exists
        /\ FileHolds(file, idx)


(***************************************************************************)
(* Batch claims, checked under SpecB.                                     *)
(***************************************************************************)
\* AddBatch was called on a trained index with n >= 1 well-formed rows and has returned
AddBatchReturned ==
    /\ bpc = "done"
    /\ vectors # <<>>
    /\ ~IsNil(idx0)
    /\ IsTrained(idx0)
    /\ Len(vectors) % D(idx0) = 0

NoEngineFailure(log) == \A e \in 1..Len(log) : log[e][3] # "engine failed"

\* C1: when no engine call fails, AddBatch on a trained index with n >= 1 rows
\* returns no error and leaves the index with the count and the stored rows, in
\* order, that one unbatched Add of the whole buffer gives on the same starting
\* index, whatever the batch size (1, n/2, n, n+10 among them).
C1_AddBatchEqualsAdd ==
    (AddBatchReturned /\ NoEngineFailure(addLog)) =>
        /\ err = Nil
        /\ idx = Add(idx0, vectors, TRUE).idx
        /\ Ntotal(idx) = Ntotal(idx0) + Len(vectors) \div D(idx0)

\* a successful AddBatch of three rows in two chunks on an index that held rows
C1_Witness ==
    /\ AddBatchReturned
    /\ err = Nil
    /\ Len(addLog) = 2
    /\ Len(vectors) = 3 * D(idx0)
    /\ Ntotal(idx0) > 0
    /\ D(idx0) = 2

\* SearchBatch was called on a trained index with q >= 1 well-formed rows and
\* k >= 1 and has returned
SearchBatchReturned ==
    /\ bpc = "done"
    /\ queries # <<>>
    /\ ~IsNil(idx0)
    /\ IsTrained(idx0)
    /\ Len(queries) % D(idx0) = 0
    /\ k >= 1

\* C2: when no engine call fails, SearchBatch returns q distance lists and q label
\* lists of length k each, and the i-th lists are the result of the unbatched
\* Search on query row i alone, for every batch size.
C2_SearchBatchPerQuery ==
    (SearchBatchReturned /\ NoEngineFailure(searchLog)) =>
        LET q == Len(queries) \div D(idx0)
        IN /\ err = Nil
           /\ Len(distances) = q
           /\ Len(labels) = q
           /\ \A qi \in 1..q :
                LET one == Search(idx0, Row(queries, D(idx0), qi - 1), k, TRUE)
                IN /\ Len(distances[qi]) = k
                   /\ Len(labels[qi]) = k
                   /\ distances[qi] = one.distances
                   /\ labels[qi] = one.labels

\* three queries answered in two chunks, with different answers at the chunk boundary
C2_Witness ==
    /\ SearchBatchReturned
    /\ err = Nil
    /\ Len(searchLog) = 2
    /\ Len(queries) = 3 * D(idx0)
    /\ Ntotal(idx0) = 2
    /\ k = 2
    /\ labels[2] # labels[3]
    /\ labels[1] # labels[2]

\* C12: SearchBatch with an empty queries buffer on a trained index returns
\* empty distance and label lists and no error.
C12_ZeroQueriesNoError ==
    [][(/\ ~IsNil(idx)
        /\ IsTrained(idx)
        /\ \E kk \in 1..MaxK, bs \in BatchSizes(0) : SearchBatchCall(<<>>, kk, bs))
        => (bpc' = "done" /\ err' = Nil /\ distances' = <<>> /\ labels' = <<>>)]_vars

\* C13: on an index with ntotal > 0 and numQueries >= 1 well-formed query rows,
\* ComputeDistancesBatch returns numQueries * ntotal numbers, and row i of them
\* is the list of ntotal distances that SearchBatch with k = ntotal returned for
\* query i, for every i, also when numQueries > ntotal.
C13_EveryRowFilled ==
    (cdb = "done" /\ err = Nil) =>
        LET ntotal == Ntotal(idx)
            numQueries == Len(queries) \div D(idx)
        IN /\ Len(resultMatrix) = numQueries * ntotal
           /\ \A ii \in 0..(numQueries - 1) :
                 Slice(resultMatrix, ii * ntotal, (ii + 1) * ntotal) = distances[ii + 1]

\* the step is a call of AddBatch
IsAddBatchCall ==
    \E bs \in BatchSizes(Len(vectors') \div D(idx)) : AddBatchCall(vectors', bs)

\* C14: AddBatch with an empty buffer, with a buffer whose length is no multiple
\* of the dimension, or on an index that is not trained returns an error at once:
\* no engine add call has been made and the index is as it was.
C14_AddBatchRejects ==
    [][(/\ ~IsNil(idx)
        /\ IsAddBatchCall
        /\ \/ vectors' = <<>>
           \/ Len(vectors') % D(idx) # 0
           \/ ~IsTrained(idx))
        => (bpc' = "done" /\ err' # Nil /\ idx' = idx /\ addLog' = <<>>)]_vars

\* AddBatch has refused well-formed rows because the index is not trained
C14_Witness ==
    /\ bpc = "done"
    /\ ~IsTrained(idx)
    /\ Len(vectors) = 2 * D(idx)
    /\ err = <<"add batch operation", "index not trained">>
    /\ addLog = <<>>
    /\ idx = idx0

Min(a, b) == IF a < b THEN a ELSE b

\* the log holds the calls for the row ranges [0,b), [b,2b), ... of n rows, in
\* order and complete: ceil(n/b) calls, each of b rows but a shorter last one
ChunksCover(log, n, b) ==
    /\ Len(log) = (n + b - 1) \div b
    /\ \A e \in 1..Len(log) : log[e] = <<(e - 1) * b, Min(e * b, n), "ok">>
    /\ \A r \in 0..(n - 1) :
          Cardinality({e \in 1..Len(log) : log[e][1] <= r /\ r < log[e][2]}) = 1

\* C15: for n >= 1 well-formed rows on a trained index, AddBatch works with
\* b = min(n, batchSize if batchSize > 0, else the default), which is in 1..n,
\* and when it returns without error its engine add calls were those for the row
\* ranges [0,b), [b,2b), ... in ascending order, covering rows 0..n-1 exactly
\* once in ceil(n/b) calls.
C15_ChunksPartitionRows ==
    [][LET n == Len(vectors') \div D(idx)
       IN /\ \A bs \in BatchSizes(n) :
                (/\ ~IsNil(idx) /\ IsTrained(idx)
                 /\ vectors' # <<>> /\ Len(vectors') % D(idx) = 0
                 /\ AddBatchCall(vectors', bs))
                => /\ batchSize' = Min(n, IF bs > 0 THEN bs ELSE DefaultAddBatchSize)
                   /\ batchSize' \in 1..n
          /\ (AddBatchReturned' /\ err' = Nil /\ addLog' # <<>>)
                => ChunksCover(addLog', n, batchSize')]_vars

\* three rows added with batch size 2: a chunk of two rows, then one of one row
C15_Witness ==
    /\ AddBatchReturned
    /\ err = Nil
    /\ Len(vectors) = 3 * D(idx0)
    /\ batchSize = 2
    /\ addLog = <<<<0, 2, "ok">>, <<2, 3, "ok">>>>
    /\ Ntotal(idx) = Ntotal(idx0) + 3

(***************************************************************************)
(* Selector claims, checked under SpecS.                                  *)
(***************************************************************************)
\* the IDs of the index before the selector was applied
IDsBefore == {idx0.ids[j] : j \in 1..Len(idx0.ids)}

\* RemoveIDs with the built selector has returned without error
Removed(op) == spc = "removed" /\ sop.op = op /\ ~SelectorIsNil(selector) /\ err = Nil

\* the index holds, in their order, the IDs it held before but those in S, and
\* RemoveIDs returned the number of IDs that left
RemovedExactly(S) ==
    /\ idx.ids = SeqOfSet(IDsBefore \ S)
    /\ nRemoved = Cardinality(IDsBefore \cap S)
    /\ Ntotal(idx) = Ntotal(idx0) - nRemoved

\* C16: NewIDSelectorRange fails, without a call of the engine, for min < 0,
\* max < 0 or min >= max; for 0 <= min < max it builds (when the engine's
\* constructor works) a selector that selects exactly the IDs of [min, max), and
\* RemoveIDs with it removes exactly the IDs of the index in [min, max) and
\* returns their number.
C16_RangeSelector ==
    LET imin == sop.imin
        imax == sop.imax
        valid == 0 <= imin /\ imin < imax
    IN /\ (spc = "built" /\ sop.op = "NewIDSelectorRange") =>
            /\ ~valid => (SelectorIsNil(selector) /\ err # Nil /\ engineCalls = 0)
            /\ valid => (/\ engineCalls = 1
                         /\ sop.engineOk <=> err = Nil
                         /\ sop.engineOk <=> ~SelectorIsNil(selector))
            /\ ~SelectorIsNil(selector) =>
                  \A id \in -1..(IndexSize + 1) :
                      Selects(selector, id) <=> (imin <= id /\ id < imax)
       /\ Removed("NewIDSelectorRange") => RemovedExactly(imin..(imax - 1))

\* Range(5, 10) has removed the IDs 5..9 from the index that held 0..IndexSize-1
C16_Witness ==
    /\ Removed("NewIDSelectorRange")
    /\ sop.imin = 5
    /\ sop.imax = 10
    /\ Ntotal(idx0) = IndexSize
    /\ nRemoved = 5
    /\ idx.ids = SeqOfSet((0..4) \cup (10..(IndexSize - 1)))

\* C17: CreateBatchSelector fails, without a call of the engine, for an empty
\* input, for an input with a negative ID, and, when maxID >= 0, for an input
\* with an ID >= maxID; for every other input it builds a selector (when the
\* engine's constructor works).
C17_BatchSelectorValidation ==
    (spc = "built" /\ sop.op = "CreateBatchSelector") =>
        LET ids == sop.ids
            maxID == sop.maxID
            bad == \/ ids = <<>>
                   \/ \E id \in Range(ids) : id < 0
                   \/ maxID >= 0 /\ \E id \in Range(ids) : id >= maxID
        IN /\ bad => (SelectorIsNil(selector) /\ err # Nil /\ engineCalls = 0)
           /\ ~bad => (/\ engineCalls = 1
                       /\ sop.engineOk <=> err = Nil
                       /\ sop.engineOk <=> ~SelectorIsNil(selector))

\* an ID equal to the max-ID bound has been refused
C17_Witness ==
    /\ spc = "built"
    /\ sop.op = "CreateBatchSelector"
    /\ sop.ids = <<1, 2>>
    /\ sop.maxID = 2
    /\ err = <<"ID validation", "ID at index 1 (2) >= maxID (2)">>
    /\ SelectorIsNil(selector)

\* ID lists a and b hold the same set of IDs
SameSet(a, b) == Range(a) = Range(b)

\* C18: CreateBatchSelector hands the engine a strictly ascending list of exactly
\* the IDs of its input, so every valid input with the same set of IDs, in any
\* order and with any duplication, gives the same selector, and RemoveIDs with
\* it removes exactly the IDs of that set.
C18_BatchSelectorCanonical ==
    /\ (spc = "built" /\ sop.op = "CreateBatchSelector" /\ ~SelectorIsNil(selector)) =>
          LET indices == selector.indices
          IN /\ \A j \in 1..(Len(indices) - 1) : indices[j] < indices[j + 1]
             /\ Range(indices) = Range(sop.ids)
             /\ \A other \in IDLists :
                   SameSet(other, sop.ids) =>
                       CreateBatchSelector(other, sop.maxID, TRUE).sel = selector
    /\ Removed("CreateBatchSelector") => RemovedExactly(Range(sop.ids))

\* the selector built from [3,1,2,1] is the one built from [1,2,3], and it has
\* removed the IDs 1, 2 and 3
C18_Witness ==
    /\ Removed("CreateBatchSelector")
    /\ sop.ids = <<3, 1, 2, 1>>
    /\ selector = CreateBatchSelector(<<1, 2, 3>>, -1, TRUE).sel
    /\ Ntotal(idx0) = IndexSize
    /\ nRemoved = 3

C3_FailedChunkKeepsEarlier ==
    (AddBatchReturned /\ ~NoEngineFailure(addLog)) =>
        LET last == addLog[Len(addLog)]
            ii == last[1]
            e == last[2]
            d == D(idx0)
        IN /\ last[3] = "engine failed"
           /\ \A c \in 1..(Len(addLog) - 1) : addLog[c][3] = "ok"
           /\ err # Nil
           /\ err[1] = "add batch " \o ToString(ii) \o "-" \o ToString(e - 1)
           /\ Ntotal(idx) = Ntotal(idx0) + ii
           /\ idx.ids = idx0.ids \o [j \in 1..ii |-> Ntotal(idx0) + j - 1]
           /\ idx.xb = idx0.xb \o SubSeq(vectors, 1, ii * d)

\* the second chunk of a three-row AddBatch failed in the engine
C3_Witness ==
    /\ AddBatchReturned
    /\ Len(addLog) = 2
    /\ addLog[2] = <<2, 3, "engine failed">>
    /\ Ntotal(idx) = Ntotal(idx0) + 2

(***************************************************************************)
(* BatchIndexManager claims, checked under SpecM                           *)
(***************************************************************************)
\* the stems of the files LoadAll looks at
MatchingStems == {Stem(fname) : fname \in Range(Glob(dir))}

\* C20: after LoadAll returns without error, the names of the registry are
\* exactly the stems of the .faiss files of the base directory, each name
\* holding the index its file describes, whatever the registry held before:
\* a name registered before the call that has no such file is absent.
C20_LoadAllReplaces ==
    (mop = "LoadAll" /\ err = Nil) =>
        /\ DOMAIN Indices = MatchingStems
        /\ \A fname \in Range(Glob(dir)) :
              Indices[Stem(fname)] = Deserialize(dir[fname])
        /\ \A name \in namesBefore :
              name \notin MatchingStems => name \notin DOMAIN Indices

\* LoadAll has returned without error on a registry that held a name without
\* a file and a name below a subdirectory, in a directory with a backup file
\* and a file below a subdirectory, neither of which it looks at
C20_Witness ==
    /\ mop = "LoadAll" /\ err = Nil
    /\ namesBefore = {Name("", "b"), Name("sub", "a")}
    /\ DOMAIN dir = {FilePath("", "a", ".faiss"), FilePath("", "a.faiss", ".bak"),
                     FilePath("sub", "a", ".faiss")}
    /\ DOMAIN Indices = {Name("", "a")}

IsCopy(op) == op.op \in {"BackupIndex", "RestoreIndex"}

\* the calls of Read that copy a file of n bytes: one for each buffer, full or
\* not, and the one that finds the end of the file
ReadsFor(n) == (n + BufferSize - 1) \div BufferSize + 1

\* what holds when a copy from fop.src to fop.dst has returned
CopyIsExact ==
    IsCopy(fop) =>
        /\ err = Nil =>
              /\ FileAt(fs, fop.dst).exists
              /\ FileAt(fs, fop.dst).bytes = FileAt(fs, fop.src).bytes
              /\ fop.dst # fop.src =>
                    /\ fs[fop.dst].bytes = fs0[fop.src].bytes
                    /\ fs[fop.src] = fs0[fop.src]
                    /\ nReads = ReadsFor(Len(fs0[fop.src].bytes))
        /\ nReads <= ReadsFor(Len(FileAt(fs0, fop.src).bytes))
        /\ ~FileAt(fs0, fop.src).exists => (err # Nil /\ fs = fs0)

\* a BackupIndex to another path has returned without error and the step is
\* the RestoreIndex from that path back, which returns without error
RestoresBackup ==
    /\ fop.op = "BackupIndex" /\ err = Nil /\ fop.dst # fop.src
    /\ fop'.op = "RestoreIndex" /\ err' = Nil
    /\ fop'.src = fop.dst /\ fop'.dst = fop.src

C28_BackupKeepsOriginal ==
    fop.op = "BackupIndex" => FileAt(fs, fop.src) = FileAt(fs0, fop.src)

(***************************************************************************)
(* Claims on the promoted methods of a PersistentIndex, checked under SpecE. *)
(***************************************************************************)
\* the step is a call of Reset, Train or AddBatch on the PersistentIndex
PromotedCall == \E p \in Procs : EmbeddedAny(p)

\* C23: every operation on a PersistentIndex that changes the index in memory
\* is followed by WriteIndex before it returns without error: a call of Reset,
\* Train or AddBatch that starts while no other call runs and the file holds
\* the index in memory, and returns without error, ends with the file holding
\* the index in memory.
C23_EveryMutationPersists ==
    [][(/\ PromotedCall
        /\ err' = Nil
        /\ \A q \in Procs : pc[q] = "idle"
        /\ FileHolds(file, idx)) => FileHolds(file', idx')]_vars

\* the step is a call of Ntotal() on the PersistentIndex
IsNtotalCall == \E p \in Procs : NtotalCall(p)

\* C24: a read-only call through the embedded handle does not take the lock of
\* the instance: Ntotal() can be called and returns in every state of an open
\* PersistentIndex, also while a mutating call holds the lock, it leaves the
\* lock as it is, and it returns the count of the index in memory at that
\* time, whatever the file holds.
C24_ReadOnlyBypassesLock ==
    /\ [](\A p \in Others : opened # "no" => ENABLED NtotalCall(p))
    /\ [][IsNtotalCall =>
            /\ mu' = mu /\ pc' = pc
            /\ seen'.ntotal = Ntotal(idx)
            /\ seen'.at = (IF mu = 0 THEN "unlocked" ELSE pc[mu])]_vars

\* Ntotal() returned while a mutating call held the lock, after that call's
\* change of the index in memory and before its WriteIndex, and it returned a
\* count that the file did not hold
C24_Witness ==
    /\ seen.at = "Persist"
    /\ seen.ntotal = 1
    /\ seen.inFile = 0

(***************************************************************************)
(* Claims on both the batch calls and the PersistentIndex, under SpecN.    *)
(***************************************************************************)
\* the chunk calls logged so far went through the chunks once, in order, and
\* stopped at the first that failed, whose failure is the error of the call
LoggedOnce(log) ==
    /\ \A a, b \in 1..Len(log) : a < b => (log[a][1] < log[b][1] /\ log[a][3] = "ok")
    /\ (log # <<>> /\ log[Len(log)][3] # "ok") => (bpc = "done" /\ err # Nil)

\* where mutating call p stands, what it has done so far: one call on the
\* embedded Index once it is past Mutate, one WriteIndex once it is past
\* Persist, none after a failed call on the embedded Index
DoneOnce(p) ==
    /\ pc[p] \in {"Lock", "Mutate"} => (call[p].mem = "pending" /\ call[p].writes = 0)
    /\ pc[p] = "Persist" => (call[p].mem = "ok" /\ call[p].writes = 0 /\ call[p].err = Nil)
    /\ pc[p] = "Unlock" =>
          /\ call[p].mem \in {"ok", "failed"}
          /\ call[p].writes = (IF call[p].mem = "ok" THEN 1 ELSE 0)
          /\ call[p].mem = "failed" => call[p].err # Nil
          /\ call[p].err = Nil => FileHolds(file, idx)

\* a call moves forward only: to the call on the embedded Index from the lock,
\* to WriteIndex from that call, and to its return
ForwardOnly(p) ==
    /\ pc'[p] = "Mutate" => pc[p] \in {"Lock", "Mutate"}
    /\ pc'[p] = "Persist" => pc[p] \in {"Mutate", "Persist"}
    /\ (pc[p] = "Mutate" /\ idx' # idx) => pc'[p] = "Persist"
    /\ (pc[p] = "Persist" /\ file' # file) => pc'[p] = "Unlock"

\* C25: nothing retries.  A mutating call on a PersistentIndex makes at most
\* one call on the embedded Index and at most one WriteIndex, AddBatch and
\* SearchBatch call Add and Search once for each chunk, and a failure of the
\* engine or of the file ends the call with an error.
C25_NothingRetries ==
    [][/\ LoggedOnce(addLog)' /\ LoggedOnce(searchLog)'
       /\ \A p \in Procs : DoneOnce(p)' /\ ForwardOnly(p)]_vars

\* WriteIndex failed in a mutating call whose call on the embedded Index had
\* succeeded: the call is about to return the error after one attempt
C25_Witness ==
    \E p \in Procs :
        /\ pc[p] = "Unlock" /\ call[p].mem = "ok"
        /\ call[p].writes = 1 /\ call[p].err # Nil

(***************************************************************************)
(* BatchSelectorBuilder claims, checked under SpecBB.                      *)
(***************************************************************************)
\* the accumulated IDs are such that Build accepts them: there is one, none is
\* negative and, under a bound >= 0, none reaches the bound
Buildable(ids, maxID) ==
    /\ ids # <<>>
    /\ \A j \in 1..Len(ids) : ids[j] >= 0 /\ (maxID >= 0 => ids[j] < maxID)

\* C26: after any sequence of SetMaxID, AddID, AddIDs, AddRange and Clear,
\* Count() is the number of IDs appended since the last Clear, duplicates
\* counted, AddRange(s, e) having appended s..e-1 and nothing when s >= e;
\* Build() succeeds exactly when that list is not empty, holds no negative ID
\* and, with a bound >= 0, no ID at or above the bound (and the engine builds
\* the selector); the selector it returns selects exactly the accumulated IDs.
C26_BuilderCountAndBuild ==
    /\ Count(builder) = Len(appended)
    /\ bop.op = "Build" =>
          /\ bop.engineOk => (err = Nil <=> Buildable(appended, builder.maxID))
          /\ err = Nil => Buildable(appended, builder.maxID)
          /\ err = Nil <=> ~SelectorIsNil(selector)
          /\ err = Nil =>
                \A id \in -2..(MaxBatchID + 2) :
                    Selects(selector, id) <=> id \in Range(appended)
          /\ ~Buildable(appended, builder.maxID) => engineCalls = 0

\* Build succeeded on a list with a duplicate, put together by AddRange and
\* AddID after a Clear, under a bound
C26_Witness ==
    /\ bop.op = "Build" /\ err = Nil
    /\ appended = <<1, 2, 1>>
    /\ builder.maxID = MaxBatchID + 1
    /\ Count(builder) = 3
    /\ selector = BatchSelector(<<1, 2>>)

\* C29: Build() does not change the builder: Count(), the IDs GetIDs()
\* returns, in their order, and the bound are after Build() what they were
\* before it, whether it returned a selector or an error.
C29_BuildKeepsBuilder ==
    bop.op = "Build" =>
        /\ Count(builder) = Count(builder0)
        /\ GetIDs(builder) = GetIDs(builder0)
        /\ builder.maxID = builder0.maxID

(***************************************************************************)
(* BatchIndexManager claims on SaveAll, checked under SpecV                *)
(***************************************************************************)
\* the contents of a file of the directory, NoFile if it is not there
DirFileAt(d, p) == IF p \in DOMAIN d THEN FileOf(d[p]) ELSE NoFile

\* a SaveAll that returned without error left, for every name of the
\* registry, the file <basePath>/<name>.faiss holding the index of that name,
\* and left the registry as it was
SavesEveryEntry ==
    (mop' = "SaveAll" /\ err' = Nil) =>
        /\ \A name \in DOMAIN Indices :
              DirFileAt(dir', IndexFileOf(name)) = FileOf(Serialize(Indices[name]))
        /\ Indices' = Indices

\* a SaveAll that failed names in its error the entry it stopped at, has
\* written the entries it took before that one and has not touched the others
StopsAtFailedEntry ==
    (mop' = "SaveAll" /\ err' # Nil) =>
        \E name \in DOMAIN Indices : \E before \in SUBSET (DOMAIN Indices \ {name}) :
            /\ Head(err') = "save index " \o NameString(name)
            /\ \A n \in before :
                  DirFileAt(dir', IndexFileOf(n)) = FileOf(Serialize(Indices[n]))
            /\ \A n \in DOMAIN Indices \ (before \cup {name}) :
                  DirFileAt(dir', IndexFileOf(n)) = DirFileAt(dir, IndexFileOf(n))
            /\ \A p \in (DOMAIN dir \cup DOMAIN dir') \ {IndexFileOf(n) : n \in DOMAIN Indices} :
                  DirFileAt(dir', p) = DirFileAt(dir, p)
            /\ Indices' = Indices

\* the directory holds no index file but those of the names of the registry
NoOtherIndexFiles ==
    \A p \in DOMAIN dir : p.ext = ".faiss" => \E name \in DOMAIN Indices : p = IndexFileOf(name)

\* a LoadAll that returns without error right after a SaveAll that returned
\* without error, in a directory with no other index files, leaves the names
\* the registry had
RestoresNames ==
    (mop = "SaveAll" /\ err = Nil /\ NoOtherIndexFiles /\ mop' = "LoadAll" /\ err' = Nil) =>
        DOMAIN Indices' = DOMAIN Indices

\* C27: after SaveAll returns without error every name of the registry has
\* its file <basePath>/<name>.faiss holding its index and the registry is
\* unchanged; a failed write stops SaveAll at that entry with an error that
\* names it, the files written before staying; and a successful SaveAll into
\* a directory with no other index files followed by LoadAll restores the
\* same set of names.
C27_SaveAllThenLoadAll == [][SavesEveryEntry /\ StopsAtFailedEntry /\ RestoresNames]_vars

\* the first two parts of C27 alone
C27_SaveAllWritesAndStops == [][SavesEveryEntry /\ StopsAtFailedEntry]_vars

\* the third part of C27 for a registry whose names have no path separator
C27_FlatNamesRestored ==
    [][(\A name \in DOMAIN Indices : name.dir = "") => RestoresNames]_vars

\* a LoadAll has followed a successful SaveAll of two names and has restored them
C27_FlatWitness ==
    /\ mop = "LoadAll" /\ err = Nil
    /\ namesBefore = {Name("", "a"), Name("", "b")}
    /\ DOMAIN Indices = namesBefore
    /\ DOMAIN dir = {FilePath("", "a", ".faiss"), FilePath("", "b", ".faiss")}

(***************************************************************************)
(* Claims on the life of a handle, checked under SpecD                     *)
(***************************************************************************)
\* a call of Train, Add, AddWithIDs, Search, Reset or RemoveIDs on a handle
\* whose engine index is gone returns ErrNullPointer without an engine call
NilHandleRejects ==
    \A c \in HandleCalls(D(idx0)), engineOk \in BOOLEAN :
        (IsNil(idx) /\ HandleCall(c, engineOk)) =>
            err' = ErrNullPointer /\ ~dop'.engine

\* a call of AddBatch or SearchBatch on such a handle returns ErrNullPointer
\* at once: no chunk is handed to Add or Search
NilHandleRejectsBatch ==
    (IsNil(idx) /\ bpc = "idle" /\ bpc' # "idle") =>
        /\ err' = ErrNullPointer
        /\ bpc' = "done"
        /\ addLog' = addLog
        /\ searchLog' = searchLog

\* the first Delete frees the engine index and clears the finalizer, a later
\* Delete frees nothing
DeleteFreesIfThere ==
    DeleteCall =>
        /\ IsNil(idx')
        /\ ~finalizer'
        /\ frees' = IF IsNil(idx) THEN frees ELSE frees + 1

\* C30: for every handle and every sequence of Delete() calls and other
\* operations the engine index is freed at most once: the first Delete frees
\* it and clears the finalizer, later Deletes do nothing; once it is freed,
\* D() and Ntotal() are 0, IsTrained() is false, and Train, Add, AddWithIDs,
\* Search, SearchBatch, AddBatch, Reset and RemoveIDs return the null-pointer
\* error without calling the engine.
C30_DeleteFreesOnce ==
    /\ [](/\ frees <= 1
          /\ IsNil(idx) <=> frees = 1
          /\ IsNil(idx) => D(idx) = 0 /\ Ntotal(idx) = 0 /\ ~IsTrained(idx) /\ ~finalizer)
    /\ [][/\ DeleteFreesIfThere
          /\ IsNil(idx) => IsNil(idx') /\ frees' = frees
          /\ NilHandleRejects
          /\ NilHandleRejectsBatch]_vars

\* a handle for an index with a row has been deleted, a call on it has been
\* rejected, and Delete has been called on it once more
C30_Witness ==
    /\ Ntotal(idx0) = 1
    /\ IsNil(idx)
    /\ frees = 1
    /\ err = ErrNullPointer
    /\ dop = [op |-> "Delete", engine |-> FALSE]
====
